---- MODULE Spec2Model ----
(***************************************************************************)
(* ChangeChecker: snapshot / diff / unwrap / merge engine                  *)
(* (src/src/ChangeChecker.ts, lines 1-1460).                               *)
(*                                                                         *)
(* The JavaScript heap is a sequence of records; an address is an index.   *)
(* A value is a record [t, v]: a number, undefined, null, a function, a    *)
(* reference to a heap record, or (inside a diff) a reference to a diff    *)
(* node.  The identity token of an object (objectIdSymbol) is the field    *)
(* id, NoId when the object carries none.                                  *)
(***************************************************************************)
EXTENDS Integers, Sequences, FiniteSets, TLC

\* ---------------------------------------------------------------- bounds
MaxObj == 14    \* heap capacity: an operation that would exceed it is not taken
MaxMut == 1     \* host mutations per behaviour
MaxArr == 3     \* longest array a host mutation builds
MaxNum == 2     \* primitive numbers 1..MaxNum
MaxSnap == 1    \* takeSnapshot calls per behaviour
MaxDiff == 1    \* createDiff calls per behaviour
MaxMerge == 1   \* proxied assignments per behaviour
MaxQuery == 1   \* $unwrap / $isDirty calls per behaviour
MaxSteps == 4   \* operations per behaviour
MaxCheckers == 2 \* ChangeChecker instances of the process
MaxPlug == 3    \* addPlugin / removePlugin calls per behaviour
MaxAfter == 1   \* host edits after createDiff per behaviour
MaxCalls == 2   \* takeSnapshot calls per behaviour when the host snapshots parts and values

\* ---------------------------------------------------------------- values
NoId == -1
Keys == {"a", "b"}

Num(n) == [t |-> "num", v |-> n]
Undef == [t |-> "undef", v |-> 0]
Null == [t |-> "null", v |-> 0]
Fn == [t |-> "fn", v |-> 0]
Ref(a) == [t |-> "ref", v |-> a]
DiffV(i) == [t |-> "diff", v |-> i]

Obj(id, keys, vals) == [kind |-> "obj", id |-> id, keys |-> keys, vals |-> vals]
Arr(id, vals) == [kind |-> "arr", id |-> id, keys |-> <<>>, vals |-> vals]
Date(ts) == [kind |-> "date", id |-> NoId, keys |-> <<>>, vals |-> <<Num(ts)>>]
\* an instance of a class of the host (SpecificPrototype in the test suite)
Node(keys, vals) == [kind |-> "node", id |-> NoId, keys |-> keys, vals |-> vals]

VARIABLES
    heap,               \* the JavaScript heap: Seq of object records
    model,              \* address of the host model root
    snap,               \* address of the latest snapshot root, 0 when none
    currentObjectId,    \* ChangeChecker.currentObjectId of every checker instance
    valueLikePlugins,   \* ChangeChecker.valueLikePlugins (names, in order)
    referenceLikePlugins, \* ChangeChecker.referenceLikePlugins (names, in order)
    diff,               \* outcome of the last createDiff call
    unwrapped,          \* outcome of the last $unwrap call
    dirty,              \* outcome of the last $isDirty call
    merged,             \* record of the last proxied assignment
    hist                \* history: counters (edits counts the operations that write to objects)
                        \* and the last host mutation

vars == <<heap, model, snap, currentObjectId, valueLikePlugins, referenceLikePlugins, diff, unwrapped, dirty, merged, hist>>

\* ---------------------------------------------------------------- helpers
SeqToSet(s) == {s[i] : i \in 1..Len(s)}

IndexOf(s, x) == IF \E i \in 1..Len(s) : s[i] = x
                 THEN CHOOSE i \in 1..Len(s) : s[i] = x /\ \A j \in 1..(i - 1) : s[j] # x
                 ELSE 0

RemoveAt(s, i) == SubSeq(s, 1, i - 1) \o SubSeq(s, i + 1, Len(s))

\* obj[key]: undefined when the object has no such property
GetProp(o, k) == IF IndexOf(o.keys, k) = 0 THEN Undef ELSE o.vals[IndexOf(o.keys, k)]

\* obj[key] = v: an existing key keeps its position, a new key is appended
PutProp(o, k, v) == IF IndexOf(o.keys, k) = 0
                    THEN [o EXCEPT !.keys = Append(@, k), !.vals = Append(@, v)]
                    ELSE [o EXCEPT !.vals[IndexOf(o.keys, k)] = v]

isObject(v) == v.t = "ref"

isValueType(v) == v.t \in {"undef", "null", "num"}

\* plugin.isMatch: the plugins "date" and "time" match a Date (instanceof Date, and a
\* test for getTime), the plugins "node" and "mark" an instance of the host's class
PluginIsMatch(name, h, v) ==
    /\ v.t = "ref"
    /\ \/ name \in {"date", "time"} /\ h[v.v].kind = "date"
       \/ name \in {"node", "mark"} /\ h[v.v].kind = "node"

\* a reference-like plugin may come without clone function: "mark" has none
PluginHasClone(name) == name # "mark"

isValueLike(h, v) ==
    isObject(v) /\ \E i \in 1..Len(valueLikePlugins) : PluginIsMatch(valueLikePlugins[i], h, v)

isReference(h, v) == isObject(v) /\ h[v.v].id # NoId

\* the date plugin's equals: same timestamp
PluginEquals(h, l, r) == h[l.v].vals = h[r.v].vals

\* the date plugin's clone: new Date(inst), a new instance without objectIdSymbol
PluginClone(h, v) == [h[v.v] EXCEPT !.id = NoId]

getPropertyKeys(o) == o.keys

\* the slots a traversal iterates: the items of an array, the property keys of an object
NumSlots(o) == IF o.kind = "arr" THEN Len(o.vals) ELSE Len(getPropertyKeys(o))

\* ---------------------------------------------------------------- takeSnapshot
RECURSIVE assignObjectIds(_, _), assignChildren(_, _, _)
\* fault: every visited object is stamped, tokened or not
assignObjectIds_Restamp(st, a) ==
    IF a \in st.seen THEN st
    ELSE assignChildren([heap |-> [st.heap EXCEPT ![a].id = st.cur],
                         seen |-> st.seen \cup {a},
                         cur |-> st.cur + 1], a, 1)

assignObjectIds(st, a) ==
    IF a \in st.seen THEN st
    ELSE LET fresh == st.heap[a].id = NoId
             st1 == [heap |-> IF fresh THEN [st.heap EXCEPT ![a].id = st.cur] ELSE st.heap,
                     seen |-> st.seen \cup {a},
                     cur |-> IF fresh THEN st.cur + 1 ELSE st.cur]
         IN assignChildren(st1, a, 1)

assignChildren(st, a, i) ==
    IF i > NumSlots(st.heap[a]) THEN st
    ELSE LET v == st.heap[a].vals[i]
         IN assignChildren(IF isObject(v) /\ ~isValueLike(st.heap, v)
                             THEN assignObjectIds(st, v.v) ELSE st, a, i + 1)

\* fault: a shallow copy, nested objects are shared with the source
RECURSIVE cloneItems_Shallow(_, _, _, _)
cloneItems_Shallow(st, a, n, i) ==
    IF i > NumSlots(st.heap[a]) THEN st
    ELSE LET src == st.heap[a]
             v == src.vals[i]
         IN IF v.t = "fn" THEN cloneItems_Shallow(st, a, n, i + 1)
            ELSE cloneItems_Shallow(IF src.kind = "arr"
                                    THEN [st EXCEPT !.heap[n].vals = Append(@, v)]
                                    ELSE [st EXCEPT !.heap[n] = PutProp(@, src.keys[i], v)], a, n, i + 1)

\* the first plugin of the list plugins, from place i on, that has a clone function
\* fit for the list and matches v; 0 when there is none
RECURSIVE FirstMatch(_, _, _, _, _)
FirstMatch(plugins, needsClone, h, v, i) ==
    IF i > Len(plugins) THEN 0
    ELSE IF (needsClone => PluginHasClone(plugins[i])) /\ PluginIsMatch(plugins[i], h, v) THEN i
    ELSE FirstMatch(plugins, needsClone, h, v, i + 1)

\* state threaded through clone: the heap, the referenceMap and the returned value;
\* calls lists the plugin.clone calls made, active the plugin.clone calls that have
\* not returned yet (the instance and the keys of the referenceMap at the call),
\* threw tells that the call ended in an error
RECURSIVE clone(_, _), cloneItems(_, _, _, _), pluginClone(_, _, _), pluginCloneFields(_, _, _, _)
clone(st, any) ==
    IF any.t = "ref" /\ any.v \in DOMAIN st.map THEN [st EXCEPT !.ret = Ref(st.map[any.v])]
    ELSE IF isValueType(any) THEN [st EXCEPT !.ret = any]
    ELSE IF any.t = "fn" THEN [st EXCEPT !.ret = Undef]
    ELSE IF FirstMatch(valueLikePlugins, FALSE, st.heap, any, 1) # 0
         THEN pluginClone(st, valueLikePlugins[FirstMatch(valueLikePlugins, FALSE, st.heap, any, 1)], any)
    ELSE IF FirstMatch(referenceLikePlugins, TRUE, st.heap, any, 1) # 0
         THEN LET st1 == pluginClone(st, referenceLikePlugins[FirstMatch(referenceLikePlugins, TRUE, st.heap, any, 1)],
                                     any)
              IN IF st1.threw THEN st1
                 ELSE [st1 EXCEPT !.heap[st1.ret.v].id = st.heap[any.v].id,
                                  !.map = (any.v :> st1.ret.v) @@ @]
    ELSE LET src == st.heap[any.v]
             n == Len(st.heap) + 1
             st1 == [st EXCEPT !.heap = Append(@, [kind |-> IF src.kind = "arr" THEN "arr" ELSE "obj",
                                                   id |-> NoId, keys |-> <<>>, vals |-> <<>>]),
                               !.map = (any.v :> n) @@ @]
             st2 == cloneItems(st1, any.v, n, 1)
         IN IF st2.threw THEN st2
            ELSE [st2 EXCEPT !.heap[n].id = src.id, !.ret = Ref(n)]

\* the loops of cloneArray and cloneObject over the source's items / property keys
cloneItems(st, a, n, i) ==
    IF i > NumSlots(st.heap[a]) THEN st
    ELSE LET src == st.heap[a]
             v == src.vals[i]
         IN IF v.t = "fn" THEN cloneItems(st, a, n, i + 1)
            ELSE LET st1 == IF isObject(v) THEN clone(st, v) ELSE [st EXCEPT !.ret = v]
                     st2 == IF src.kind = "arr"
                            THEN [st1 EXCEPT !.heap[n].vals = Append(@, st1.ret)]
                            ELSE [st1 EXCEPT !.heap[n] = PutProp(@, src.keys[i], st1.ret)]
                 IN IF st1.threw THEN st1 ELSE cloneItems(st2, a, n, i + 1)

\* plugin.clone(ctx, any) of the host's plugins: new Date(inst) for a Date, and for an
\* instance of the host's class a new instance whose fields are ctx.clone of the
\* fields of inst. A call for an instance whose plugin.clone is still running, with
\* the referenceMap as that call found it, repeats that call without end: the call
\* stack overflows and a RangeError is thrown.
pluginClone(st, name, any) ==
    IF <<any.v, DOMAIN st.map>> \in st.active THEN [st EXCEPT !.threw = TRUE]
    ELSE LET st1 == [st EXCEPT !.calls = Append(@, [plugin |-> name, inst |-> any.v]),
                               !.active = @ \cup {<<any.v, DOMAIN st.map>>}]
         IN IF st.heap[any.v].kind = "date"
            THEN [st1 EXCEPT !.heap = Append(@, PluginClone(st.heap, any)), !.ret = Ref(Len(st.heap) + 1),
                             !.active = st.active]
            ELSE LET st2 == pluginCloneFields([st1 EXCEPT !.ret = <<>>], any.v, 1, <<>>)
                 IN IF st2.threw THEN st2
                    ELSE [st2 EXCEPT !.heap = Append(@, [st.heap[any.v] EXCEPT !.id = NoId, !.vals = st2.ret]),
                                     !.ret = Ref(Len(st2.heap) + 1),
                                     !.active = st.active]

\* the arguments of the constructor call: ctx.clone of each field, in ret
pluginCloneFields(st, a, i, args) ==
    IF i > Len(st.heap[a].vals) THEN [st EXCEPT !.ret = args]
    ELSE LET st1 == clone(st, st.heap[a].vals[i])
         IN IF st1.threw THEN st1
            ELSE pluginCloneFields(st1, a, i + 1, Append(args, st1.ret))

\* takeSnapshot(model) for an object or array m; when clone throws the tokens stay
\* assigned and nothing is returned
takeSnapshot(h, cur, m) ==
    LET st == assignObjectIds([heap |-> h, seen |-> {}, cur |-> cur], m)
        c == clone([heap |-> st.heap, map |-> <<>>, ret |-> Undef, calls |-> <<>>, active |-> {},
                    threw |-> FALSE], Ref(m))
    IN IF c.threw
       THEN [heap |-> st.heap, cur |-> st.cur, ret |-> 0, map |-> <<>>, calls |-> c.calls, threw |-> TRUE]
       ELSE [heap |-> c.heap, cur |-> st.cur, ret |-> c.ret.v, map |-> c.map, calls |-> c.calls, threw |-> FALSE]

\* ---------------------------------------------------------------- reachability
\* what a traversal of the engine visits: items and property values, not entering value-likes
RECURSIVE ReachFrom(_, _, _)
ReachFrom(h, todo, seen) ==
    IF todo = {} THEN seen
    ELSE LET a == CHOOSE x \in todo : TRUE
             kids == IF isValueLike(h, Ref(a)) THEN {}
                     ELSE {h[a].vals[i].v : i \in {j \in 1..NumSlots(h[a]) : h[a].vals[j].t = "ref"}}
         IN ReachFrom(h, (todo \cup kids) \ (seen \cup {a}), seen \cup {a})

Reach(h, root) == IF root = 0 THEN {} ELSE ReachFrom(h, {root}, {})

\* composites (objects and arrays, not value-likes) reachable from root
Composites(h, root) == {a \in Reach(h, root) : ~isValueLike(h, Ref(a))}

\* ---------------------------------------------------------------- lookup tree
Tok(id) == [t |-> "tok", v |-> id]

NoConflict == [hasConflict |-> FALSE]

\* Map.get: the index of the entry stored under key, 0 when there is none
LkFind(lk, key) == IF \E i \in 1..Len(lk) : lk[i].key = key
                   THEN CHOOSE i \in 1..Len(lk) : lk[i].key = key
                   ELSE 0

\* Set.add of every key of ks, keeping insertion order
AddKeys(pk, ks) == pk \o SelectSeq(ks, LAMBDA k : k \notin SeqToSet(pk))

\* the lookup key of an array / object: its token; in the present model the
\* object itself when it carries none, in the former model undefined
LookupKey(h, a, side) ==
    IF h[a].id # NoId THEN Tok(h[a].id)
    ELSE IF side = "PresentModel" THEN Ref(a) ELSE Undef

SideObject(e, side) == IF side = "FormerModel" THEN e.formerObject ELSE e.presentObject

PathElem(o, i) == IF o.kind = "arr" THEN [k |-> "", i |-> i - 1] ELSE [k |-> o.keys[i], i |-> -1]

\* build{Former,Present}LookupTree and their Array / Object variants:
\* st = [lk, conflict], h the heap, v the value visited
RECURSIVE buildLookupValue(_, _, _, _), buildLookupNode(_, _, _, _), buildLookupKids(_, _, _, _, _)
buildLookupValue(st, h, v, side) ==
    IF isObject(v) /\ ~isValueLike(h, v) THEN buildLookupNode(st, h, v.v, side) ELSE st

buildLookupNode(st, h, a, side) ==
    LET o == h[a]
        key == LookupKey(h, a, side)
        i == LkFind(st.lk, key)
        keys == IF o.kind = "arr" THEN <<>> ELSE getPropertyKeys(o)
    IN IF i = 0
       THEN buildLookupKids([st EXCEPT !.lk = Append(@,
                [key |-> key,
                 formerObject |-> IF side = "FormerModel" THEN a ELSE 0,
                 presentObject |-> IF side = "PresentModel" THEN a ELSE 0,
                 propertyKeys |-> keys,
                 kind |-> o.kind])], h, a, side, 1)
       ELSE IF SideObject(st.lk[i], side) # 0
            THEN IF SideObject(st.lk[i], side) # a
                 THEN [st EXCEPT !.conflict =
                          [hasConflict |-> TRUE, source |-> side, objectId |-> key,
                           conflictingObjectLeft |-> SideObject(st.lk[i], side),
                           conflictingObjectRight |-> a,
                           conflictingObjectRightPath |-> <<>>]]
                 ELSE st
            ELSE buildLookupKids(
                    [st EXCEPT !.lk[i] = IF side = "FormerModel"
                                          THEN [@ EXCEPT !.formerObject = a, !.propertyKeys = AddKeys(@, keys)]
                                          ELSE [@ EXCEPT !.presentObject = a, !.propertyKeys = AddKeys(@, keys)]],
                    h, a, side, 1)

buildLookupKids(st, h, a, side, i) ==
    IF i > NumSlots(h[a]) THEN st
    ELSE LET st1 == buildLookupValue(st, h, h[a].vals[i], side)
         IN IF st1.conflict.hasConflict
            THEN [st1 EXCEPT !.conflict.conflictingObjectRightPath = Append(@, PathElem(h[a], i))]
            ELSE buildLookupKids(st1, h, a, side, i + 1)

\* findPath: st = [seen, path, found]; depth-first search for needle from the value hay,
\* the path is collected from the needle back to the root
RECURSIVE findPath(_, _, _, _), findPathKids(_, _, _, _, _)
findPath(st, h, hay, needle) ==
    IF hay \in st.seen THEN [st EXCEPT !.found = FALSE]
    ELSE LET st1 == [st EXCEPT !.seen = @ \cup {hay}, !.found = FALSE]
         IN IF hay = Ref(needle) THEN [st1 EXCEPT !.found = TRUE]
            ELSE IF isObject(hay) /\ (h[hay.v].kind = "arr" \/ ~isValueLike(h, hay))
                 THEN findPathKids(st1, h, hay.v, needle, 1)
                 ELSE st1

findPathKids(st, h, a, needle, i) ==
    IF i > NumSlots(h[a]) THEN [st EXCEPT !.found = FALSE]
    ELSE LET r == findPath(st, h, h[a].vals[i], needle)
         IN IF r.found THEN [r EXCEPT !.path = Append(@, PathElem(h[a], i))]
            ELSE findPathKids(r, h, a, needle, i + 1)

\* Array.prototype.reverse
Reversed(s) == [i \in 1..Len(s) |-> s[Len(s) + 1 - i]]

\* the ChangeCheckerObjectConflictError thrown for the conflict c found under root
ConflictError(h, root, c) ==
    [c EXCEPT !.conflictingObjectRightPath = Reversed(@)] @@
    [conflictingObjectLeftPath |->
        Reversed(findPath([seen |-> {}, path |-> <<>>, found |-> FALSE], h, Ref(root), c.conflictingObjectLeft).path)]

\* fault: the present graph is traversed and checked before the former one
buildLookupTree_PresentFirst(globalLookup, h, former, present) ==
    LET p == buildLookupValue([lk |-> globalLookup, conflict |-> NoConflict], h, Ref(present), "PresentModel")
    IN IF p.conflict.hasConflict THEN [p EXCEPT !.conflict = ConflictError(h, present, @)]
       ELSE LET f == buildLookupValue(p, h, Ref(former), "FormerModel")
            IN IF f.conflict.hasConflict THEN [f EXCEPT !.conflict = ConflictError(h, former, @)]
               ELSE f

\* buildLookupTree, filling this.globalLookup: the former traversal, then (when it
\* found no conflict) the present one; a conflict is completed to the error thrown
buildLookupTree(globalLookup, h, former, present) ==
    LET f == buildLookupValue([lk |-> globalLookup, conflict |-> NoConflict], h, Ref(former), "FormerModel")
    IN IF f.conflict.hasConflict THEN [f EXCEPT !.conflict = ConflictError(h, former, @)]
       ELSE LET p == buildLookupValue(f, h, Ref(present), "PresentModel")
            IN IF p.conflict.hasConflict THEN [p EXCEPT !.conflict = ConflictError(h, present, @)]
               ELSE p

\* ---------------------------------------------------------------- diff binding
\* lookup.get(objectId)!.diff for a token without correlation record: a TypeError
Thrown == [t |-> "throw", v |-> 0]

\* fault: an object without token is not looked up by itself
resolveValueOrDiff_TokenOnly(st, lk, v) ==
    IF v.t = "ref"
    THEN IF st.heap[v.v].id # NoId
         THEN IF LkFind(lk, Tok(st.heap[v.v].id)) = 0 THEN [st EXCEPT !.ret = Thrown]
              ELSE [st EXCEPT !.ret = DiffV(LkFind(lk, Tok(st.heap[v.v].id)))]
         ELSE IF isValueLike(st.heap, v)
              THEN [st EXCEPT !.heap = Append(@, PluginClone(st.heap, v)), !.ret = Ref(Len(st.heap) + 1)]
              ELSE [st EXCEPT !.ret = v]
    ELSE [st EXCEPT !.ret = v]

\* resolveValueOrDiff: st = [heap, ret]; a value-like is copied by its plugin
resolveValueOrDiff(st, lk, v) ==
    IF v.t = "ref"
    THEN IF st.heap[v.v].id # NoId
         THEN IF LkFind(lk, Tok(st.heap[v.v].id)) = 0 THEN [st EXCEPT !.ret = Thrown]
              ELSE [st EXCEPT !.ret = DiffV(LkFind(lk, Tok(st.heap[v.v].id)))]
         ELSE IF LkFind(lk, v) # 0 THEN [st EXCEPT !.ret = DiffV(LkFind(lk, v))]
         ELSE IF isValueLike(st.heap, v)
              THEN [st EXCEPT !.heap = Append(@, PluginClone(st.heap, v)), !.ret = Ref(Len(st.heap) + 1)]
              ELSE [st EXCEPT !.ret = v]
    ELSE [st EXCEPT !.ret = v]

\* node[objectIdSymbol] of a resolved value while entry cur is being bound:
\* a diff node carries the former token once its own entry has been bound
ResolvedId(h, lk, x, cur) ==
    IF x.t = "diff" THEN IF x.v <= cur /\ lk[x.v].formerObject # 0 THEN h[lk[x.v].formerObject].id ELSE NoId
    ELSE IF x.t = "ref" THEN h[x.v].id
    ELSE NoId

\* fault: value-likes compared by reference, as a Map or === would
isSameValueLike_ByReference(h, left, right) == left = right

isSameValueLike(h, left, right) ==
    /\ \E i \in 1..Len(valueLikePlugins) : PluginIsMatch(valueLikePlugins[i], h, left)
    /\ LET i == CHOOSE j \in 1..Len(valueLikePlugins) :
                    /\ PluginIsMatch(valueLikePlugins[j], h, left)
                    /\ \A m \in 1..(j - 1) : ~PluginIsMatch(valueLikePlugins[m], h, left)
       IN PluginIsMatch(valueLikePlugins[i], h, right) /\ PluginEquals(h, left, right)

Unchanged(v) == [isChanged |-> FALSE, value |-> v, formerValue |-> Undef]
\* fault: the arguments of the changed variant swapped
Changed_Swapped(v, f) == [isChanged |-> TRUE, value |-> f, formerValue |-> v]
Changed(v, f) == [isChanged |-> TRUE, value |-> v, formerValue |-> f]

\* createPropertyDiff: st = [heap, ret]; ret is the property diff
createPropertyDiff(st, lk, cur, fv, pv) ==
    LET e == lk[cur]
    IN IF e.presentObject = 0
       THEN LET r == resolveValueOrDiff(st, lk, fv) IN [r EXCEPT !.ret = Unchanged(r.ret)]
       ELSE IF e.formerObject = 0
       THEN LET r == resolveValueOrDiff(st, lk, pv) IN [r EXCEPT !.ret = Unchanged(r.ret)]
       ELSE LET r1 == resolveValueOrDiff(st, lk, pv)
                r2 == resolveValueOrDiff(r1, lk, fv)
                value == r1.ret
                formerValue == r2.ret
                isSameValue == formerValue = value
                isSameReference == /\ ~isSameValue
                                   /\ ResolvedId(r2.heap, lk, formerValue, cur) # NoId
                                   /\ ResolvedId(r2.heap, lk, formerValue, cur) = ResolvedId(r2.heap, lk, value, cur)
                isSame == isSameValue \/ isSameReference \/ isSameValueLike(r2.heap, formerValue, value)
            IN [r2 EXCEPT !.ret = IF isSame THEN Unchanged(value) ELSE Changed(value, formerValue)]

EmptyNode(kind, e, h) ==
    [kind |-> kind,
     id |-> IF e.formerObject # 0 THEN h[e.formerObject].id ELSE NoId,
     isCreated |-> e.formerObject = 0,
     isDeleted |-> e.presentObject = 0,
     isChanged |-> FALSE,
     pkeys |-> <<>>, pdiffs |-> <<>>,
     inserted |-> <<>>, deleted |-> <<>>, other |-> <<>>]

\* fault: isChanged overwritten by each property instead of accumulated
RECURSIVE bindObjectProps_LastWins(_, _, _, _)
bindObjectProps_LastWins(st, lk, cur, i) ==
    LET e == lk[cur]
    IN IF i > Len(e.propertyKeys) THEN st
       ELSE LET k == e.propertyKeys[i]
                fv == IF e.formerObject # 0 THEN GetProp(st.heap[e.formerObject], k) ELSE Undef
                pv == IF e.presentObject # 0 THEN GetProp(st.heap[e.presentObject], k) ELSE Undef
            IN IF fv.t = "fn" \/ pv.t = "fn" THEN bindObjectProps_LastWins(st, lk, cur, i + 1)
               ELSE LET r == createPropertyDiff(st, lk, cur, fv, pv)
                    IN bindObjectProps_LastWins(
                          [heap |-> r.heap,
                           ret |-> [st.ret EXCEPT !.pkeys = Append(@, k), !.pdiffs = Append(@, r.ret),
                                                  !.isChanged = r.ret.isChanged]],
                          lk, cur, i + 1)

\* fault: a key is skipped only when its present value is a function
RECURSIVE bindObjectProps_PresentFnOnly(_, _, _, _)
bindObjectProps_PresentFnOnly(st, lk, cur, i) ==
    LET e == lk[cur]
    IN IF i > Len(e.propertyKeys) THEN st
       ELSE LET k == e.propertyKeys[i]
                fv == IF e.formerObject # 0 THEN GetProp(st.heap[e.formerObject], k) ELSE Undef
                pv == IF e.presentObject # 0 THEN GetProp(st.heap[e.presentObject], k) ELSE Undef
            IN IF pv.t = "fn" THEN bindObjectProps_PresentFnOnly(st, lk, cur, i + 1)
               ELSE LET r == createPropertyDiff(st, lk, cur, fv, pv)
                    IN bindObjectProps_PresentFnOnly(
                          [heap |-> r.heap,
                           ret |-> [st.ret EXCEPT !.pkeys = Append(@, k), !.pdiffs = Append(@, r.ret),
                                                  !.isChanged = @ \/ r.ret.isChanged]],
                          lk, cur, i + 1)

\* bindObjectDiff: st = [heap, ret]; ret is the bound object-diff node
RECURSIVE bindObjectProps(_, _, _, _)
bindObjectProps(st, lk, cur, i) ==
    LET e == lk[cur]
    IN IF i > Len(e.propertyKeys) THEN st
       ELSE LET k == e.propertyKeys[i]
                fv == IF e.formerObject # 0 THEN GetProp(st.heap[e.formerObject], k) ELSE Undef
                pv == IF e.presentObject # 0 THEN GetProp(st.heap[e.presentObject], k) ELSE Undef
            IN IF fv.t = "fn" \/ pv.t = "fn" THEN bindObjectProps(st, lk, cur, i + 1)
               ELSE LET r == createPropertyDiff(st, lk, cur, fv, pv)
                    IN bindObjectProps(
                          [heap |-> r.heap,
                           ret |-> [st.ret EXCEPT !.pkeys = Append(@, k), !.pdiffs = Append(@, r.ret),
                                                  !.isChanged = @ \/ r.ret.isChanged]],
                          lk, cur, i + 1)

bindObjectDiff(h, lk, cur) ==
    bindObjectProps([heap |-> h, ret |-> EmptyNode("obj", lk[cur], h)], lk, cur, 1)

\* resultMap of bindArrayDiff: a Map in insertion order, rm[i] = [key, f, p] with
\* f the former and p the present occurrences of key
RmFind(rm, key) == IF \E i \in 1..Len(rm) : rm[i].key = key
                   THEN CHOOSE i \in 1..Len(rm) : rm[i].key = key
                   ELSE 0

\* the two scans of bindArrayDiff: st = [heap, ret], ret the resultMap
RECURSIVE scanArray(_, _, _, _, _)
scanArray(st, lk, a, side, i) ==
    IF i > Len(st.heap[a].vals) THEN st
    ELSE LET item == st.heap[a].vals[i]
         IN IF side = "PresentModel" /\ item.t = "fn" THEN scanArray(st, lk, a, side, i + 1)
            ELSE LET r == resolveValueOrDiff(st, lk, item)
                     x == r.ret
                     j == RmFind(st.ret, x)
                     rm == IF j # 0
                           THEN IF side = "PresentModel" THEN [st.ret EXCEPT ![j].p = Append(@, x)]
                                                         ELSE [st.ret EXCEPT ![j].f = Append(@, x)]
                           ELSE Append(st.ret, [key |-> x,
                                                f |-> IF side = "FormerModel" THEN <<x>> ELSE <<>>,
                                                p |-> IF side = "PresentModel" THEN <<x>> ELSE <<>>])
                 IN scanArray([heap |-> r.heap, ret |-> rm], lk, a, side, i + 1)

\* Array.prototype.splice(0, n) returns the first n elements (none when n <= 0)
SpliceHead(s, n) == IF n <= 0 THEN <<>> ELSE SubSeq(s, 1, n)
SpliceRest(s, n) == IF n <= 0 THEN s ELSE SubSeq(s, n + 1, Len(s))

\* fault: slice in place of splice, the split-off occurrences stay in their lists
Buckets_Slice(e) ==
    LET deleted == SpliceHead(e.f, Len(e.f) - Len(e.p))
        inserted == SpliceHead(e.p, Len(e.p) - Len(e.f))
    IN [deleted |-> deleted, inserted |-> inserted,
        other |-> IF Len(inserted) > 0 THEN e.p ELSE e.f]

\* the split of one resultMap entry into its deleted, inserted and other occurrences
Buckets(e) ==
    LET deleted == SpliceHead(e.f, Len(e.f) - Len(e.p))
        formerOccurrences == SpliceRest(e.f, Len(e.f) - Len(e.p))
        inserted == SpliceHead(e.p, Len(e.p) - Len(formerOccurrences))
        presentOccurrences == SpliceRest(e.p, Len(e.p) - Len(formerOccurrences))
    IN [deleted |-> deleted, inserted |-> inserted,
        other |-> IF Len(inserted) > 0 THEN presentOccurrences ELSE formerOccurrences]

RECURSIVE pushBuckets(_, _, _)
pushBuckets(node, es, i) ==
    IF i > Len(es) THEN node
    ELSE LET b == Buckets(es[i])
         IN pushBuckets([node EXCEPT !.deleted = @ \o b.deleted, !.inserted = @ \o b.inserted,
                                     !.other = @ \o b.other], es, i + 1)

\* the pairwise merge of the value-like entries: the entry at outer absorbs every
\* later entry its plugin matches and reports equal
RECURSIVE mergeInner(_, _, _, _), mergeValueLikes(_, _, _)
mergeInner(h, vl, outer, inner) ==
    IF inner > Len(vl) THEN vl
    ELSE IF isSameValueLike(h, vl[outer].key, vl[inner].key)
         THEN mergeInner(h, RemoveAt([vl EXCEPT ![outer].f = @ \o vl[inner].f,
                                                ![outer].p = @ \o vl[inner].p], inner), outer, inner)
         ELSE mergeInner(h, vl, outer, inner + 1)

mergeValueLikes(h, vl, outer) ==
    IF outer > Len(vl) THEN vl
    ELSE mergeValueLikes(h, mergeInner(h, vl, outer, outer + 1), outer + 1)

\* fault: the items of a one-sided array are classified as inserted
RECURSIVE resolveAll_AsInserted(_, _, _, _, _)
resolveAll_AsInserted(st, lk, a, skipFn, i) ==
    IF i > Len(st.heap[a].vals) THEN st
    ELSE LET item == st.heap[a].vals[i]
         IN IF skipFn /\ item.t = "fn" THEN resolveAll_AsInserted(st, lk, a, skipFn, i + 1)
            ELSE LET r == resolveValueOrDiff(st, lk, item)
                 IN resolveAll_AsInserted([heap |-> r.heap, ret |-> [st.ret EXCEPT !.inserted = Append(@, r.ret)]],
                                          lk, a, skipFn, i + 1)

\* bindArrayDiff: returns [heap, ret], ret the bound array-diff node
RECURSIVE resolveAll(_, _, _, _, _)
resolveAll(st, lk, a, skipFn, i) ==
    IF i > Len(st.heap[a].vals) THEN st
    ELSE LET item == st.heap[a].vals[i]
         IN IF skipFn /\ item.t = "fn" THEN resolveAll(st, lk, a, skipFn, i + 1)
            ELSE LET r == resolveValueOrDiff(st, lk, item)
                 IN resolveAll([heap |-> r.heap, ret |-> [st.ret EXCEPT !.other = Append(@, r.ret)]],
                               lk, a, skipFn, i + 1)

bindArrayDiff(h, lk, cur) ==
    LET e == lk[cur]
        st0 == [heap |-> h, ret |-> EmptyNode("arr", e, h)]
    IN IF e.presentObject = 0 THEN resolveAll(st0, lk, e.formerObject, FALSE, 1)
       ELSE IF e.formerObject = 0 THEN resolveAll(st0, lk, e.presentObject, TRUE, 1)
       ELSE LET s1 == scanArray([heap |-> h, ret |-> <<>>], lk, e.presentObject, "PresentModel", 1)
                s2 == scanArray(s1, lk, e.formerObject, "FormerModel", 1)
                resultMap == s2.ret
                plain == SelectSeq(resultMap, LAMBDA x : ~isValueLike(s2.heap, x.key))
                valueLikes == SelectSeq(resultMap, LAMBDA x : isValueLike(s2.heap, x.key))
                node == pushBuckets(pushBuckets(st0.ret, plain, 1),
                                    mergeValueLikes(s2.heap, valueLikes, 1), 1)
            IN [heap |-> s2.heap,
                ret |-> [node EXCEPT !.isChanged = Len(node.inserted) > 0 \/ Len(node.deleted) > 0]]

\* createDiffInternal: binds every lookup entry in insertion order.
\* st = [heap, nodes]
bindEntry(h, lk, cur) ==
    IF lk[cur].kind = "arr" THEN bindArrayDiff(h, lk, cur) ELSE bindObjectDiff(h, lk, cur)

\* the heap and the nodes after entry cur has been bound with result r
Bound(st, r) == [heap |-> r.heap, nodes |-> Append(st.nodes, r.ret)]

RECURSIVE bindAll(_, _, _)
bindAll(st, lk, cur) ==
    IF cur > Len(lk) THEN st
    ELSE bindAll(Bound(st, bindEntry(st.heap, lk, cur)), lk, cur + 1)

\* createDiff: the outcome, and the heap afterwards (value-like copies are new objects)
\* some resolution of the binding threw
HasThrown(nodes) ==
    \E i \in 1..Len(nodes) :
        \/ \E j \in 1..Len(nodes[i].pdiffs) : Thrown \in {nodes[i].pdiffs[j].value, nodes[i].pdiffs[j].formerValue}
        \/ Thrown \in SeqToSet(nodes[i].inserted) \cup SeqToSet(nodes[i].deleted) \cup SeqToSet(nodes[i].other)

\* createDiffInternal once the lookup is bound (r): the diff of the former root, or
\* the TypeError of a resolution
createDiffInternal(h, former, lk, r) ==
    IF HasThrown(r.nodes) THEN [heap |-> h, out |-> [status |-> "typeerror", globalLookup |-> lk]]
    ELSE [heap |-> r.heap,
          out |-> [status |-> "ok", lk |-> lk, nodes |-> r.nodes, root |-> LkFind(lk, Tok(h[former].id)),
                   globalLookup |-> lk]]

\* createDiff once the lookup tree is built (b): the conflict error, or the diff
createDiffFrom(h, former, b) ==
    IF b.conflict.hasConflict
    THEN [heap |-> h, out |-> [status |-> "conflict", conflict |-> b.conflict, globalLookup |-> b.lk]]
    ELSE createDiffInternal(h, former, b.lk, bindAll([heap |-> h, nodes |-> <<>>], b.lk, 1))

\* fault: the correlation records of the last call are kept
globalLookupClear_Kept(globalLookup) == globalLookup

\* this.globalLookup.clear()
globalLookupClear(globalLookup) == <<>>

\* createDiff(former, present) on a checker whose globalLookup field holds globalLookup
createDiffOn(globalLookup, h, former, present) ==
    IF ~isReference(h, Ref(former)) \/ ~isReference(h, Ref(present)) \/ h[former].id # h[present].id
    THEN [heap |-> h, out |-> [status |-> "invalid", globalLookup |-> globalLookup]]
    ELSE createDiffFrom(h, former, buildLookupTree(globalLookupClear(globalLookup), h, former, present))

\* createDiff on the checker of the host: its globalLookup is as the last call left it
createDiff(h, former, present) == createDiffOn(diff.globalLookup, h, former, present)

\* ---------------------------------------------------------------- $unwrap
\* unwrapPresentInternal / unwrapFormerInternal: st = [heap, map, ret]; map is the
\* referenceMap (diff node -> object built for it), D the diff, x a resolved value
RECURSIVE unwrapValue(_, _, _, _), unwrapItems(_, _, _, _, _, _), unwrapProps(_, _, _, _, _, _)

\* fault: the former era reads $value where a property diff is changed
RECURSIVE unwrapProps_ValueOnly(_, _, _, _, _, _)
unwrapProps_ValueOnly(st, D, era, node, n, i) ==
    IF i > Len(D.nodes[node].pkeys) THEN st
    ELSE LET x == D.nodes[node].pdiffs[i].value
             r == IF isValueType(x) \/ isValueLike(st.heap, x) THEN [st EXCEPT !.ret = x]
                  ELSE unwrapValue(st, D, era, x)
         IN unwrapProps_ValueOnly([r EXCEPT !.heap[n] = PutProp(@, D.nodes[node].pkeys[i], r.ret)],
                                  D, era, node, n, i + 1)

unwrapValue(st, D, era, x) ==
    IF x.t # "diff" THEN [st EXCEPT !.ret = x]
    ELSE IF x.v \in DOMAIN st.map THEN [st EXCEPT !.ret = Ref(st.map[x.v])]
    ELSE LET node == D.nodes[x.v]
             n == Len(st.heap) + 1
             st1 == [st EXCEPT !.heap = Append(@, [kind |-> node.kind, id |-> NoId, keys |-> <<>>, vals |-> <<>>]),
                               !.map = (x.v :> n) @@ @]
         IN IF node.kind = "arr"
            THEN LET st2 == unwrapItems(st1, D, era, node.other \o
                                (IF era = "Present" THEN node.inserted ELSE node.deleted), n, 1)
                 IN [st2 EXCEPT !.heap[n].id = node.id, !.ret = Ref(n)]
            ELSE LET st2 == unwrapProps(st1, D, era, x.v, n, 1)
                 IN [st2 EXCEPT !.heap[n].id = IF era = "Present" \/ Len(node.pkeys) > 0 THEN node.id ELSE NoId,
                                !.ret = Ref(n)]

unwrapItems(st, D, era, items, n, i) ==
    IF i > Len(items) THEN st
    ELSE LET x == items[i]
             r == IF isValueType(x) \/ isValueLike(st.heap, x) THEN [st EXCEPT !.ret = x]
                  ELSE unwrapValue(st, D, era, x)
         IN unwrapItems([r EXCEPT !.heap[n].vals = Append(@, r.ret)], D, era, items, n, i + 1)

unwrapProps(st, D, era, node, n, i) ==
    IF i > Len(D.nodes[node].pkeys) THEN st
    ELSE LET pd == D.nodes[node].pdiffs[i]
             x == IF era = "Former" /\ pd.isChanged THEN pd.formerValue ELSE pd.value
             r == IF isValueType(x) \/ isValueLike(st.heap, x) THEN [st EXCEPT !.ret = x]
                  ELSE unwrapValue(st, D, era, x)
         IN unwrapProps([r EXCEPT !.heap[n] = PutProp(@, D.nodes[node].pkeys[i], r.ret)], D, era, node, n, i + 1)

\* ---------------------------------------------------------------- $isDirty
PropDiffId(node, i) == [t |-> "pd", v |-> node, i |-> i]

\* fault: the $other entries of an array diff are not asked
isDirtyItems_Skipped(st, h, D, node, i) == [st EXCEPT !.ret = FALSE]

\* isDirtyInternal: st = [seen, ret]
RECURSIVE isDirtyNode(_, _, _, _), isDirtyProp(_, _, _, _, _), isDirtyProps(_, _, _, _, _), isDirtyItems(_, _, _, _, _)
isDirtyNode(st, h, D, x) ==
    IF x \in st.seen THEN [st EXCEPT !.ret = FALSE]
    ELSE LET st1 == [st EXCEPT !.seen = @ \cup {x}, !.ret = FALSE]
         IN IF x.t # "diff" THEN st1
            ELSE LET node == D.nodes[x.v]
                 IN IF node.isChanged \/ node.isCreated \/ node.isDeleted THEN [st1 EXCEPT !.ret = TRUE]
                    ELSE IF node.kind = "obj" THEN isDirtyProps(st1, h, D, x.v, 1)
                    ELSE isDirtyItems(st1, h, D, x.v, 1)

\* fault: a property diff asked only for its own flag, not for the node it points to
isDirtyProp_Shallow(st, h, D, node, i) ==
    IF PropDiffId(node, i) \in st.seen THEN [st EXCEPT !.ret = FALSE]
    ELSE [st EXCEPT !.seen = @ \cup {PropDiffId(node, i)}, !.ret = D.nodes[node].pdiffs[i].isChanged]

isDirtyProp(st, h, D, node, i) ==
    IF PropDiffId(node, i) \in st.seen THEN [st EXCEPT !.ret = FALSE]
    ELSE LET pd == D.nodes[node].pdiffs[i]
             st1 == [st EXCEPT !.seen = @ \cup {PropDiffId(node, i)}, !.ret = FALSE]
         IN IF pd.isChanged THEN [st1 EXCEPT !.ret = TRUE]
            ELSE IF isValueType(pd.value) \/ isValueLike(h, pd.value) THEN st1
            ELSE isDirtyNode(st1, h, D, pd.value)

isDirtyProps(st, h, D, node, i) ==
    IF i > Len(D.nodes[node].pdiffs) THEN [st EXCEPT !.ret = FALSE]
    ELSE LET r == isDirtyProp(st, h, D, node, i)
         IN IF r.ret THEN r ELSE isDirtyProps(r, h, D, node, i + 1)

isDirtyItems(st, h, D, node, i) ==
    IF i > Len(D.nodes[node].other) THEN [st EXCEPT !.ret = FALSE]
    ELSE LET item == D.nodes[node].other[i]
         IN IF isValueType(item) \/ isValueLike(h, item) \/ item.t = "fn"
            THEN isDirtyItems(st, h, D, node, i + 1)
            ELSE LET r == isDirtyNode(st, h, D, item)
                 IN IF r.ret THEN r ELSE isDirtyItems(r, h, D, node, i + 1)

\* $isDirty() of a diff node or of a property diff
isDirty(h, D, x) ==
    IF x.t = "pd" THEN isDirtyProp([seen |-> {}, ret |-> FALSE], h, D, x.v, x.i).ret
    ELSE isDirtyNode([seen |-> {}, ret |-> FALSE], h, D, x).ret

\* ---------------------------------------------------------------- merge
\* collectObjectsWithObjectId: st = [map, seen]; map is token -> object (the last one met wins)
RECURSIVE collectObjectsWithObjectId(_, _, _), collectKids(_, _, _, _)
collectObjectsWithObjectId(st, h, any) ==
    IF ~isObject(any) \/ isValueLike(h, any) \/ any.v \in st.seen THEN st
    ELSE LET st1 == [seen |-> st.seen \cup {any.v},
                     map |-> IF isReference(h, any) THEN (h[any.v].id :> any.v) @@ st.map ELSE st.map]
         IN collectKids(st1, h, any.v, 1)

collectKids(st, h, a, i) ==
    IF i > NumSlots(h[a]) THEN st
    ELSE collectKids(collectObjectsWithObjectId(st, h, h[a].vals[i]), h, a, i + 1)

\* replaceObjectsWithSameObjectIdEverywhere: st = [heap, seen]
RECURSIVE replaceObjectsWithSameObjectIdEverywhere(_, _, _), replaceKids(_, _, _, _)
replaceObjectsWithSameObjectIdEverywhere(st, byId, any) ==
    IF ~isObject(any) \/ isValueLike(st.heap, any) \/ any.v \in st.seen THEN st
    ELSE replaceKids([st EXCEPT !.seen = @ \cup {any.v}], byId, any.v, 1)

\* fault: only the slots of the model root are retargeted, nested objects are not visited
RECURSIVE replaceKids_Shallow(_, _, _, _)
replaceKids_Shallow(st, byId, a, i) ==
    IF i > NumSlots(st.heap[a]) THEN st
    ELSE LET entry == st.heap[a].vals[i]
         IN IF isReference(st.heap, entry) /\ st.heap[entry.v].id \in DOMAIN byId
            THEN replaceKids_Shallow([st EXCEPT !.heap[a].vals[i] = Ref(byId[st.heap[entry.v].id])], byId, a, i + 1)
            ELSE replaceKids_Shallow(st, byId, a, i + 1)

replaceKids(st, byId, a, i) ==
    IF i > NumSlots(st.heap[a]) THEN st
    ELSE LET entry == st.heap[a].vals[i]
         IN IF isReference(st.heap, entry) /\ st.heap[entry.v].id \in DOMAIN byId
            THEN replaceKids([st EXCEPT !.heap[a].vals[i] = Ref(byId[st.heap[entry.v].id])], byId, a, i + 1)
            ELSE replaceKids(replaceObjectsWithSameObjectIdEverywhere(st, byId, entry), byId, a, i + 1)

mergeSnapshotIntoModel(h, m, snapshot) ==
    LET objectsByObjectId == collectObjectsWithObjectId([map |-> <<>>, seen |-> {}], h, snapshot).map
    IN IF DOMAIN objectsByObjectId = {} THEN h
       ELSE replaceObjectsWithSameObjectIdEverywhere([heap |-> h, seen |-> {}], objectsByObjectId, Ref(m)).heap

\* Reflect.set(target, propertyName, newValueOrObject) of the set trap.
\* target 0 is the ISnapshotMerger wrapper, whose property "target" is no slot of the model.
reflectSet(h, target, k, i, newValueOrObject) ==
    IF target = 0 THEN h
    ELSE IF h[target].kind = "arr" THEN [h EXCEPT ![target].vals[i] = newValueOrObject]
    ELSE [h EXCEPT ![target] = PutProp(@, k, newValueOrObject)]

\* the set trap of the proxy membrane: target[propertyName] = newValueOrObject, then the merge
proxySet(h, m, target, k, i, newValueOrObject) ==
    LET h1 == reflectSet(h, target, k, i, newValueOrObject)
    IN IF ~isValueType(newValueOrObject) /\ ~isValueLike(h, newValueOrObject)
       THEN mergeSnapshotIntoModel(h1, m, newValueOrObject)
       ELSE h1

\* ---------------------------------------------------------------- initial models
\* the ChangeChecker instances of the process, set up with the same plugins
Checkers == 1..MaxCheckers

SeedAlias == <<Obj(NoId, <<"a", "b">>, <<Ref(2), Ref(2)>>), Obj(NoId, <<"a">>, <<Num(1)>>)>>
SeedCycle == <<Obj(NoId, <<"a", "b">>, <<Ref(2), Num(1)>>), Obj(NoId, <<"a">>, <<Ref(1)>>)>>
SeedArr == <<Obj(NoId, <<"a", "b">>, <<Ref(2), Null>>), Arr(NoId, <<Num(1), Num(2), Num(1)>>)>>
SeedArrObj == <<Obj(NoId, <<"a", "b">>, <<Ref(2), Ref(3)>>), Arr(NoId, <<Ref(3), Ref(3)>>),
                Obj(NoId, <<"a">>, <<Num(1)>>)>>
SeedFn == <<Obj(NoId, <<"a", "b">>, <<Fn, Ref(2)>>), Arr(NoId, <<Fn, Num(1)>>)>>
SeedDate == <<Obj(NoId, <<"a", "b">>, <<Ref(2), Ref(3)>>), Date(1), Arr(NoId, <<Ref(4), Num(1), Ref(5)>>),
              Date(1), Date(2)>>
SeedRootArr == <<Arr(NoId, <<Ref(2), Num(1)>>), Obj(NoId, <<"a">>, <<Num(1)>>)>>

Seeds == {SeedAlias, SeedCycle, SeedArr, SeedArrObj, SeedFn, SeedDate, SeedRootArr}

NoDiff == [status |-> "none", globalLookup |-> <<>>]
NoHist == [steps |-> 0, snaps |-> 0, diffs |-> 0, merges |-> 0, muts |-> 0, queries |-> 0,
           edits |-> 0, snapEdits |-> -1, last |-> [op |-> "none"], cloned |-> <<>>, plugs |-> 0,
           clones |-> [calls |-> <<>>, threw |-> FALSE, of |-> 0], order |-> <<>>, after |-> 0]

Init ==
    /\ heap \in Seeds
    /\ model = 1
    /\ snap = 0
    /\ currentObjectId = [c \in Checkers |-> 0]
    /\ valueLikePlugins = IF heap = SeedDate THEN <<"date">> ELSE <<>>
    /\ referenceLikePlugins = <<>>
    /\ diff = NoDiff
    /\ unwrapped = [status |-> "none"]
    /\ dirty = [status |-> "none"]
    /\ merged = [status |-> "none"]
    /\ hist = NoHist

\* ---------------------------------------------------------------- operations
Step(h) == hist.steps < MaxSteps /\ Len(h) <= MaxObj

\* takeSnapshot(model) on the host's first checker: src/src/ChangeChecker.ts:45-53
TakeSnapshot ==
    /\ hist.snaps < MaxSnap
    /\ LET r == takeSnapshot(heap, currentObjectId[1], model)
       IN /\ Step(r.heap)
          /\ heap' = r.heap
          /\ currentObjectId' = [currentObjectId EXCEPT ![1] = r.cur]
          /\ snap' = IF r.threw THEN snap ELSE r.ret
          /\ hist' = [hist EXCEPT !.steps = @ + 1, !.snaps = @ + 1, !.edits = @ + 1,
                                  !.snapEdits = IF r.threw THEN @ ELSE hist.edits + 1,
                                  !.cloned = IF r.threw THEN @ ELSE r.map,
                                  !.clones = [calls |-> r.calls, threw |-> r.threw, of |-> model]]
    /\ UNCHANGED <<model, valueLikePlugins, referenceLikePlugins, diff, unwrapped, dirty, merged>>

\* objects the host holds: everything reachable from the model or the snapshot
HostObjs == Composites(heap, model) \cup Composites(heap, snap)
HostRefs == Reach(heap, model) \cup Reach(heap, snap)

MutVals == {Num(n) : n \in 1..MaxNum} \cup {Undef, Fn} \cup {Ref(a) : a \in HostRefs}

\* the host edits the model or the snapshot between takeSnapshot and the merge / diff
Mutated(h, what) ==
    /\ hist.muts < MaxMut
    /\ snap # 0
    /\ hist.merges = 0
    /\ hist.diffs = 0
    /\ Step(h)
    /\ heap' = h
    /\ hist' = [hist EXCEPT !.steps = @ + 1, !.muts = @ + 1, !.edits = @ + 1, !.last = what]
    /\ UNCHANGED <<model, snap, currentObjectId, valueLikePlugins, referenceLikePlugins, diff, unwrapped, dirty, merged>>

NewObject(kind) == [kind |-> kind, id |-> NoId, keys |-> <<>>, vals |-> <<>>]

\* host code: o[k] = v
SetProp ==
    \E o \in HostObjs, k \in Keys, v \in MutVals :
        /\ heap[o].kind = "obj"
        /\ Mutated([heap EXCEPT ![o] = PutProp(@, k, v)],
                   [op |-> "set", obj |-> o, key |-> k, had |-> IndexOf(heap[o].keys, k) # 0,
                    old |-> GetProp(heap[o], k), new |-> v])

\* what a literal the host writes allocates: {} or [] or [{}]
NewObjects(kind, at) ==
    IF kind = "nest" THEN <<Arr(NoId, <<Ref(at + 1)>>), NewObject("obj")>>
    ELSE <<NewObject(kind)>>

\* host code: o[k] = {} or o[k] = [] or o[k] = [{}]
SetPropNew ==
    \E o \in HostObjs, k \in Keys, kind \in {"obj", "arr", "nest"} :
        /\ heap[o].kind = "obj"
        /\ Mutated([heap EXCEPT ![o] = PutProp(@, k, Ref(Len(heap) + 1))] \o NewObjects(kind, Len(heap) + 1),
                   [op |-> "new", obj |-> o, key |-> k, old |-> GetProp(heap[o], k), new |-> Ref(Len(heap) + 1)])

\* host code: delete o[k]
DeleteProp ==
    \E o \in HostObjs, k \in Keys :
        /\ heap[o].kind = "obj"
        /\ IndexOf(heap[o].keys, k) # 0
        /\ Mutated([heap EXCEPT ![o] = [@ EXCEPT !.keys = RemoveAt(@, IndexOf(heap[o].keys, k)),
                                                   !.vals = RemoveAt(@, IndexOf(heap[o].keys, k))]],
                   [op |-> "delete", obj |-> o, key |-> k, old |-> GetProp(heap[o], k), new |-> Undef])

\* host code: arr.push(v)
Push ==
    \E o \in HostObjs, v \in MutVals :
        /\ heap[o].kind = "arr"
        /\ Len(heap[o].vals) < MaxArr
        /\ Mutated([heap EXCEPT ![o].vals = Append(@, v)], [op |-> "push", obj |-> o, new |-> v])

\* host code: arr.push({})
PushNew ==
    \E o \in HostObjs :
        /\ heap[o].kind = "arr"
        /\ Len(heap[o].vals) < MaxArr
        /\ Mutated(Append([heap EXCEPT ![o].vals = Append(@, Ref(Len(heap) + 1))], NewObject("obj")),
                   [op |-> "pushnew", obj |-> o, new |-> Ref(Len(heap) + 1)])

\* host code: arr.splice(i, 1)
Splice ==
    \E o \in HostObjs :
        /\ heap[o].kind = "arr"
        /\ \E i \in 1..Len(heap[o].vals) :
              Mutated([heap EXCEPT ![o].vals = RemoveAt(@, i)], [op |-> "splice", obj |-> o, at |-> i])

\* host code: arr.reverse()
Reverse ==
    \E o \in HostObjs :
        /\ heap[o].kind = "arr"
        /\ Len(heap[o].vals) > 1
        /\ Mutated([heap EXCEPT ![o].vals = [i \in 1..Len(heap[o].vals) |-> heap[o].vals[Len(heap[o].vals) + 1 - i]]],
                   [op |-> "reverse", obj |-> o])

\* the state after createDiff(f, p) returned or threw r
Diffed(r, f, p) ==
    /\ Step(r.heap)
    /\ heap' = r.heap
    /\ diff' = r.out @@ [former |-> f, present |-> p, edits |-> hist.edits,
                         since |-> hist.edits - hist.snapEdits, last |-> hist.last, prior |-> diff.status]
    /\ hist' = [hist EXCEPT !.steps = @ + 1, !.diffs = @ + 1]
    /\ UNCHANGED <<model, snap, currentObjectId, valueLikePlugins, referenceLikePlugins, unwrapped, dirty, merged>>

\* createDiff(former, present): src/src/ChangeChecker.ts:57-65
CreateDiff ==
    \E f \in {model, snap} \ {0}, p \in {model, snap} \ {0} :
        /\ hist.diffs < MaxDiff
        /\ snap # 0 => f # p
        /\ Diffed(createDiff(heap, f, p), f, p)

\* diff.$unwrap(era) on the root of the last diff
Unwrap ==
    \E era \in {"Present", "Former"} :
        /\ diff.status = "ok"
        /\ hist.queries < MaxQuery
        /\ LET r == unwrapValue([heap |-> heap, map |-> <<>>, ret |-> Undef], diff, era, DiffV(diff.root))
           IN /\ Step(r.heap)
              /\ heap' = r.heap
              /\ unwrapped' = [status |-> "done", era |-> era, root |-> r.ret, first |-> Len(heap) + 1,
                               at |-> hist.diffs, map |-> r.map]
        /\ hist' = [hist EXCEPT !.steps = @ + 1, !.queries = @ + 1]
        /\ UNCHANGED <<model, snap, currentObjectId, valueLikePlugins, referenceLikePlugins, diff, dirty, merged>>

\* x.$isDirty() on a node or a property diff of the last diff
IsDirty ==
    \E i \in 1..MaxObj, j \in 0..Cardinality(Keys) :
        /\ diff.status = "ok"
        /\ hist.queries < MaxQuery
        /\ Step(heap)
        /\ i <= Len(diff.nodes)
        /\ j <= Len(diff.nodes[i].pdiffs)
        /\ LET x == IF j = 0 THEN DiffV(i) ELSE PropDiffId(i, j)
           IN dirty' = [status |-> "done", of |-> x, result |-> isDirty(heap, diff, x), at |-> hist.diffs]
        /\ hist' = [hist EXCEPT !.steps = @ + 1, !.queries = @ + 1]
        /\ UNCHANGED <<heap, model, snap, currentObjectId, valueLikePlugins, referenceLikePlugins, diff, unwrapped, merged>>

\* what the host merges back: a part of the (edited) snapshot, a value-like instance
\* of it, or a primitive
MergeVals == {Num(1)} \cup {Ref(a) : a \in Reach(heap, snap)}

\* mergeSnapshotInto(model, m => <m.target path>[k] = x): one assignment through the proxy
\* membrane; target 0 is the wrapper itself (m.target = x)
MergeAssign ==
    \E target \in {0} \cup Composites(heap, model), k \in Keys, i \in 1..MaxArr, x \in MergeVals :
        /\ hist.merges < MaxMerge
        /\ hist.diffs = 0
        /\ IF target = 0 THEN k = "a" /\ i = 1
           ELSE IF heap[target].kind = "arr" THEN k = "a" /\ i <= Len(heap[target].vals)
           ELSE i = 1
        /\ LET h == proxySet(heap, model, target, k, i, x)
           IN /\ Step(h)
              /\ heap' = h
              /\ merged' = [status |-> "done", target |-> target, key |-> k, index |-> i, x |-> x,
                            edits |-> hist.edits + 1,
                            snapEdited |-> hist.last.op \notin {"none", "merge"} /\ hist.last.obj \in Composites(heap, snap),
                            sub |-> IF x.t = "ref" THEN Composites(reflectSet(heap, target, k, i, x), x.v) ELSE {},
                            tokens |-> IF x.t = "ref"
                                       THEN {reflectSet(heap, target, k, i, x)[a].id :
                                                a \in Composites(reflectSet(heap, target, k, i, x), x.v)} \ {NoId}
                                       ELSE {}]
        /\ hist' = [hist EXCEPT !.steps = @ + 1, !.merges = @ + 1, !.edits = @ + 1, !.last = [op |-> "merge"]]
        /\ UNCHANGED <<model, snap, currentObjectId, valueLikePlugins, referenceLikePlugins, diff, unwrapped, dirty>>

Next ==
    \/ TakeSnapshot
    \/ SetProp
    \/ SetPropNew
    \/ DeleteProp
    \/ Push
    \/ PushNew
    \/ Splice
    \/ Reverse
    \/ CreateDiff
    \/ Unwrap
    \/ IsDirty
    \/ MergeAssign

Spec == Init /\ [][Next]_vars

\* ---------------------------------------------------------------- diff surface
\* ObjectDiffImpl.$state / ArrayDiffImpl.$state
State(node) == IF node.isChanged THEN "Changed"
               ELSE IF node.isCreated THEN "Created"
               ELSE IF node.isDeleted THEN "Deleted"
               ELSE "Unchanged"

\* ---------------------------------------------------------------- vocabulary of the properties
\* the last createDiff call compared the latest snapshot (former) with the model (present),
\* and no object has been written since
DiffOfSnapshot ==
    /\ diff.status = "ok"
    /\ diff.edits = hist.edits
    /\ snap # 0
    /\ diff.former = snap
    /\ diff.present = model

\* ... and nothing was edited between that snapshot and the call
NoOpDiff == DiffOfSnapshot /\ diff.since = 0

\* some array item or property value of the graph under root is a function
HasFn(h, root) == \E a \in Composites(h, root) : \E i \in 1..Len(h[a].vals) : h[a].vals[i].t = "fn"

\* the pairs of objects met by walking two graphs in lockstep from <<a, b>>
PairKids(h, a, b) ==
    IF isValueLike(h, Ref(a)) \/ isValueLike(h, Ref(b)) \/ h[a].kind # h[b].kind THEN {}
    ELSE IF h[a].kind = "arr"
         THEN {<<h[a].vals[i].v, h[b].vals[i].v>> :
                  i \in {j \in 1..Len(h[a].vals) :
                            j <= Len(h[b].vals) /\ h[a].vals[j].t = "ref" /\ h[b].vals[j].t = "ref"}}
         ELSE {<<GetProp(h[a], k).v, GetProp(h[b], k).v>> :
                  k \in {x \in SeqToSet(h[a].keys) : GetProp(h[a], x).t = "ref" /\ GetProp(h[b], x).t = "ref"}}

RECURSIVE WalkPairs(_, _, _)
WalkPairs(h, todo, seen) ==
    IF todo = {} THEN seen
    ELSE LET p == CHOOSE x \in todo : TRUE
         IN WalkPairs(h, (todo \cup PairKids(h, p[1], p[2])) \ (seen \cup {p}), seen \cup {p})

\* two slot values agree: equal primitives, or both references (their targets are walked)
SameShape(x, y) == IF x.t = "ref" /\ y.t = "ref" THEN TRUE ELSE x = y

\* two objects agree locally: same kind, same keys / length, slots agreeing in order
LocalEq(h, a, b) ==
    /\ h[a].kind = h[b].kind
    /\ IF h[a].kind = "obj"
       THEN /\ SeqToSet(h[a].keys) = SeqToSet(h[b].keys)
            /\ \A k \in SeqToSet(h[a].keys) : SameShape(GetProp(h[a], k), GetProp(h[b], k))
       ELSE /\ Len(h[a].vals) = Len(h[b].vals)
            /\ \A i \in 1..Len(h[a].vals) : SameShape(h[a].vals[i], h[b].vals[i])

DeepEqual(h, a, b) == \A p \in WalkPairs(h, {<<a, b>>}, {}) : LocalEq(h, p[1], p[2])

\* paths that meet in the graph under a meet in the graph under b
SameAliasing(h, a, b) ==
    \A p, q \in WalkPairs(h, {<<a, b>>}, {}) :
        (p[1] = q[1] /\ ~isValueLike(h, Ref(p[1]))) => p[2] = q[2]

\* a no-op diff of a function-free model has been unwrapped to the present era
UnwrappedNoOp ==
    /\ NoOpDiff
    /\ unwrapped.status = "done"
    /\ unwrapped.at = hist.diffs
    /\ unwrapped.era = "Present"
    /\ ~HasFn(heap, model)

\* ---------------------------------------------------------------- C1
\* C1: for a model M without functions, left unmutated after S = takeSnapshot(M),
\* createDiff(S, M).$unwrap(Era.Present) is deeply equal to M (same keys, equal
\* primitives, arrays with the same elements in the same order) and paths that
\* reach one object in M reach one object in the result.
C1_RoundTrip ==
    UnwrappedNoOp =>
        /\ DeepEqual(heap, model, unwrapped.root.v)
        /\ SameAliasing(heap, model, unwrapped.root.v)

\* ---------------------------------------------------------------- C2
\* C2: the root of a no-op createDiff(S, M) has isChanged, isCreated and isDeleted
\* false, $state Unchanged, $isDirty() false, and every property diff of a
\* primitive-valued property is the unchanged variant.
C2_NoOpDiffIsClean ==
    NoOpDiff =>
        LET root == diff.nodes[diff.root]
        IN /\ ~root.isChanged /\ ~root.isCreated /\ ~root.isDeleted
           /\ State(root) = "Unchanged"
           /\ ~isDirty(heap, diff, DiffV(diff.root))
           /\ (dirty.status = "done" /\ dirty.at = hist.diffs /\ dirty.of = DiffV(diff.root)) => ~dirty.result
           /\ \A i \in 1..Len(diff.nodes) : \A j \in 1..Len(diff.nodes[i].pdiffs) :
                 (/\ diff.lk[i].presentObject # 0
                  /\ isValueType(GetProp(heap[diff.lk[i].presentObject], diff.nodes[i].pkeys[j])))
                 => ~diff.nodes[i].pdiffs[j].isChanged

\* a no-op diff whose root was asked $isDirty() and which holds a primitive-valued property
C2_Witness ==
    /\ NoOpDiff
    /\ dirty.status = "done"
    /\ dirty.at = hist.diffs
    /\ dirty.of = DiffV(diff.root)
    /\ \E i \in 1..Len(diff.nodes) : \E j \in 1..Len(diff.nodes[i].pdiffs) :
          diff.nodes[i].pdiffs[j].value.t = "num"

\* ---------------------------------------------------------------- C3
\* the entry of the last diff whose present instance is the object at address o, 0 when none
PresentEntry(o) == IF \E i \in 1..Len(diff.lk) : diff.lk[i].presentObject = o
                   THEN CHOOSE i \in 1..Len(diff.lk) : diff.lk[i].presentObject = o
                   ELSE 0

\* between the snapshot and the diff exactly one edit was made: an existing primitive
\* field of a model object was set to another primitive
SinglePrimitiveEdit ==
    /\ DiffOfSnapshot
    /\ diff.since = 1
    /\ diff.last.op = "set"
    /\ diff.last.had
    /\ isValueType(diff.last.old)
    /\ isValueType(diff.last.new)
    /\ diff.last.old # diff.last.new
    /\ PresentEntry(diff.last.obj) # 0

\* C3: after takeSnapshot, mutating exactly one primitive field makes that field's
\* property diff the changed variant with $formerValue the snapshot value and $value
\* the new value, sets the owning object diff's isChanged, and leaves the property
\* diff of every sibling field unchanged.
C3_SinglePrimitiveChange ==
    SinglePrimitiveEdit =>
        LET i == PresentEntry(diff.last.obj)
            node == diff.nodes[i]
            j == IndexOf(node.pkeys, diff.last.key)
        IN /\ j # 0
           /\ node.pdiffs[j].isChanged
           /\ node.pdiffs[j].formerValue = diff.last.old
           /\ node.pdiffs[j].formerValue = GetProp(heap[diff.lk[i].formerObject], diff.last.key)
           /\ node.pdiffs[j].value = diff.last.new
           /\ node.isChanged
           /\ \A m \in 1..Len(node.pdiffs) : m # j => ~node.pdiffs[m].isChanged

\* such an edit was diffed, and the edited object has a sibling field
C3_Witness ==
    /\ SinglePrimitiveEdit
    /\ Len(diff.nodes[PresentEntry(diff.last.obj)].pdiffs) > 1

\* ---------------------------------------------------------------- C5
\* two distinct composites reachable from root carry the same identity token
HasDuplicateToken(h, root) ==
    \E a, b \in Composites(h, root) : a # b /\ h[a].id # NoId /\ h[a].id = h[b].id

\* the last createDiff call had valid roots and the graphs are as it saw them
DiffRan == diff.status \in {"ok", "conflict"} /\ diff.edits = hist.edits

\* C5: createDiff(former, present) with valid roots throws a
\* ChangeCheckerObjectConflictError if and only if two distinct reachable instances
\* within the former graph, or within the present graph, carry the same token; one
\* instance reached through several paths or a cycle never raises.
C5_ConflictIffDuplicateToken ==
    DiffRan =>
        (diff.status = "conflict" <=>
            HasDuplicateToken(heap, diff.former) \/ HasDuplicateToken(heap, diff.present))

\* ---------------------------------------------------------------- C6
\* the last proxied assignment put a composite into a slot of the model
MergedComposite ==
    /\ merged.status = "done"
    /\ merged.edits = hist.edits
    /\ merged.target # 0
    /\ merged.x.t = "ref"

\* C6: after applyChanges assigns a composite X to a property reached through the
\* wrapped target, every property and array slot of the host model that refers to an
\* object whose token t is carried in X's subgraph refers to X's object with token t.
C6_MergeRetargetsEverySlot ==
    MergedComposite =>
        \A a \in Composites(heap, model) : \A i \in 1..NumSlots(heap[a]) :
            LET v == heap[a].vals[i]
            IN (isReference(heap, v) /\ ~isValueLike(heap, v) /\ heap[v.v].id \in merged.tokens)
               => v.v \in {x \in merged.sub : heap[x].id = heap[v.v].id}

\* a merge after which some slot of an object that was in the model before refers to
\* an object of X, other than the slot assigned
C6_Witness ==
    /\ MergedComposite
    /\ \E a \in Composites(heap, model) \ merged.sub : \E i \in 1..NumSlots(heap[a]) :
          /\ heap[a].vals[i].t = "ref"
          /\ heap[a].vals[i].v \in merged.sub
          /\ ~(a = merged.target /\ (heap[a].kind = "arr" => i = merged.index)
                                 /\ (heap[a].kind = "obj" => heap[a].keys[i] = merged.key))

\* ---------------------------------------------------------------- C7
\* the snapshot was edited, then one of its sub-objects was merged into the model
MergedSubObject ==
    /\ merged.status = "done"
    /\ merged.edits = hist.edits
    /\ merged.snapEdited
    /\ merged.target # 0
    /\ merged.x.t = "ref"
    /\ merged.x.v # snap

\* C7: if S = takeSnapshot(model), S is mutated and a sub-object of S is assigned
\* into the model through mergeSnapshotInto, then no two distinct objects reachable
\* from the model root carry the same token, so createDiff(model, S) raises no
\* conflict error.
C7_MergeLeavesTokensUnique ==
    MergedSubObject =>
        /\ ~HasDuplicateToken(heap, model)
        /\ (diff.status # "none" /\ diff.edits = hist.edits /\ diff.former = model /\ diff.present = snap)
              => diff.status # "conflict"

\* ---------------------------------------------------------------- C8
\* a diff node or property diff that is itself a change
IsChange(D, x) ==
    IF x.t = "pd" THEN D.nodes[x.v].pdiffs[x.i].isChanged
    ELSE IF x.t = "diff" THEN D.nodes[x.v].isChanged \/ D.nodes[x.v].isCreated \/ D.nodes[x.v].isDeleted
    ELSE FALSE

\* one step of "reachable through property-diff values and array-diff $other entries"
DirtyKids(D, x) ==
    IF x.t = "pd" THEN {D.nodes[x.v].pdiffs[x.i].value} \cap {DiffV(n) : n \in 1..Len(D.nodes)}
    ELSE IF x.t = "diff"
         THEN IF D.nodes[x.v].kind = "obj"
              THEN {PropDiffId(x.v, j) : j \in 1..Len(D.nodes[x.v].pdiffs)}
              ELSE {D.nodes[x.v].other[j] : j \in 1..Len(D.nodes[x.v].other)}
                       \cap {DiffV(n) : n \in 1..Len(D.nodes)}
    ELSE {}

RECURSIVE DirtyReach(_, _, _)
DirtyReach(D, todo, seen) ==
    IF todo = {} THEN seen
    ELSE LET x == CHOOSE y \in todo : TRUE
         IN DirtyReach(D, (todo \cup DirtyKids(D, x)) \ (seen \cup {x}), seen \cup {x})

\* x, or something reachable from x, is a change
ReachesChange(D, x) == \E y \in DirtyReach(D, {x}, {}) : IsChange(D, y)

\* every diff node and property diff of the last diff
DiffItems ==
    {DiffV(n) : n \in 1..Len(diff.nodes)} \cup
    UNION {{PropDiffId(n, j) : j \in 1..Len(diff.nodes[n].pdiffs)} : n \in 1..Len(diff.nodes)}

\* C8: $isDirty() on any node of a diff, cyclic graphs included, returns, and returns
\* true exactly when the node, or a node reachable from it through property-diff
\* values and array-diff $other entries, is a changed property diff or an object /
\* array diff with isChanged, isCreated or isDeleted.
C8_IsDirtyIsReachability ==
    diff.status = "ok" =>
        /\ \A x \in DiffItems : isDirty(heap, diff, x) = ReachesChange(diff, x)
        /\ (dirty.status = "done" /\ dirty.at = hist.diffs) => dirty.result = ReachesChange(diff, dirty.of)

\* $isDirty() was asked of an unflagged node on a cycle and answered true
C8_Witness ==
    /\ diff.status = "ok"
    /\ dirty.status = "done"
    /\ dirty.at = hist.diffs
    /\ dirty.of.t = "diff"
    /\ ~IsChange(diff, dirty.of)
    /\ dirty.result
    /\ \E y \in DirtyKids(diff, dirty.of) : dirty.of \in DirtyReach(diff, {y}, {})

\* ---------------------------------------------------------------- C9
\* the entity of lookup entry e is reachable from root: an instance carrying its
\* token, or (for an entity without token) the instance itself
EntityIn(h, root, e) ==
    IF e.key.t = "tok" THEN \E a \in Composites(h, root) : h[a].id = e.key.v
    ELSE IF e.key.t = "ref" THEN e.key.v \in Composites(h, root)
    ELSE e.formerObject \in Composites(h, root)

\* C9: for every object-diff and array-diff node, isCreated holds exactly when its
\* entity is not reachable in the former graph, isDeleted exactly when it is not
\* reachable in the present graph, at most one of isCreated, isDeleted and isChanged
\* holds, and $state is Created, Deleted, Changed or Unchanged accordingly.
C9_NodeFlags ==
    (diff.status = "ok" /\ diff.edits = hist.edits) =>
        \A i \in 1..Len(diff.nodes) :
            LET node == diff.nodes[i]
            IN /\ node.isCreated <=> ~EntityIn(heap, diff.former, diff.lk[i])
               /\ node.isDeleted <=> ~EntityIn(heap, diff.present, diff.lk[i])
               /\ ~(node.isCreated /\ node.isDeleted)
               /\ ~(node.isCreated /\ node.isChanged)
               /\ ~(node.isDeleted /\ node.isChanged)
               /\ State(node) = (IF node.isCreated THEN "Created"
                                 ELSE IF node.isDeleted THEN "Deleted"
                                 ELSE IF node.isChanged THEN "Changed"
                                 ELSE "Unchanged")

\* ---------------------------------------------------------------- C10
\* what a slot value denotes: the primitive, the value-like's value, or the entity
Denotes(h, v) ==
    IF v.t # "ref" THEN v
    ELSE IF isValueLike(h, v) THEN [t |-> "vl", v |-> h[v.v].vals[1].v]
    ELSE IF h[v.v].id # NoId THEN Tok(h[v.v].id)
    ELSE v

\* some non-function key of the former or the present instance holds differing values
SomeKeyDiffers(h, f, p) ==
    \E k \in SeqToSet(h[f].keys) \cup SeqToSet(h[p].keys) :
        /\ GetProp(h[f], k).t # "fn"
        /\ GetProp(h[p], k).t # "fn"
        /\ Denotes(h, GetProp(h[f], k)) # Denotes(h, GetProp(h[p], k))

\* object-diff nodes of objects present in both revisions
BothSided == {i \in 1..Len(diff.nodes) :
                 diff.nodes[i].kind = "obj" /\ diff.lk[i].formerObject # 0 /\ diff.lk[i].presentObject # 0}

\* C10: for an object present in both revisions, isChanged holds exactly when at
\* least one non-function key of the union of both instances' keys has differing
\* values (a key absent on one side counts as undefined); a change inside a
\* referenced child does not set the parent's isChanged.
C10_IsChangedIffOwnKeyDiffers ==
    (diff.status = "ok" /\ diff.edits = hist.edits) =>
        \A i \in BothSided :
            diff.nodes[i].isChanged <=>
                SomeKeyDiffers(heap, diff.lk[i].formerObject, diff.lk[i].presentObject)

\* a diff with a changed child under an unchanged parent
C10_Witness ==
    /\ diff.status = "ok"
    /\ diff.edits = hist.edits
    /\ \E i, j \in BothSided :
          /\ ~diff.nodes[i].isChanged
          /\ diff.nodes[j].isChanged
          /\ \E m \in 1..Len(diff.nodes[i].pdiffs) : diff.nodes[i].pdiffs[m].value = DiffV(j)

\* ---------------------------------------------------------------- C4
\* An array in two revisions, for bindArrayDiff on its own: the root arrays at 1
\* (snapshot) and 2 (model) carry token 0; their items are drawn from the numbers,
\* the two revisions of an object with token 1, and three dates (two of them equal).
ArrHeap(f, p) ==
    <<Arr(0, f), Arr(0, p), Obj(1, <<"a">>, <<Num(1)>>), Obj(1, <<"a">>, <<Num(1)>>),
      Date(1), Date(1), Date(2)>>

ArrItems(own) == {Num(n) : n \in 1..MaxNum} \cup {Ref(own), Ref(5), Ref(6), Ref(7)}

SeqsUpTo(S, n) == UNION {[1..m -> S] : m \in 0..n}

InitArr ==
    /\ \E f \in SeqsUpTo(ArrItems(3), MaxArr), p \in SeqsUpTo(ArrItems(4), MaxArr - 1) : heap = ArrHeap(f, p)
    /\ model = 2
    /\ snap = 1
    /\ currentObjectId = [c \in Checkers |-> IF c = 1 THEN 2 ELSE 0]
    /\ valueLikePlugins = <<"date">>
    /\ referenceLikePlugins = <<>>
    /\ diff = NoDiff
    /\ unwrapped = [status |-> "none"]
    /\ dirty = [status |-> "none"]
    /\ merged = [status |-> "none"]
    /\ hist = [NoHist EXCEPT !.snaps = 1, !.snapEdits = 1, !.edits = 2]

NextArr == CreateDiff

SpecArr == InitArr /\ [][NextArr]_vars

\* the entity a former / present array item stands for, and the one a bucket entry stands for
ItemEntity(h, v) == Denotes(h, v)
BucketEntity(h, x) == IF x.t = "diff" THEN diff.lk[x.v].key ELSE Denotes(h, x)

\* entities the claim speaks of: primitives, tokened objects, value-likes
Countable(e) == e.t \in {"num", "undef", "null", "tok", "vl"}

CountItems(h, items, e) == Cardinality({i \in 1..Len(items) : ItemEntity(h, items[i]) = e})
CountBucket(h, bucket, e) == Cardinality({i \in 1..Len(bucket) : BucketEntity(h, bucket[i]) = e})

Max(a, b) == IF a > b THEN a ELSE b
Min(a, b) == IF a < b THEN a ELSE b

\* array-diff nodes of arrays present in both revisions
BothSidedArrays == {i \in 1..Len(diff.nodes) :
                       diff.nodes[i].kind = "arr" /\ diff.lk[i].formerObject # 0 /\ diff.lk[i].presentObject # 0}

\* C4: for an array in both revisions and every distinct entry e (primitives by
\* value, tokened objects by token, value-likes by the plugin's equals) with f
\* occurrences in the former and p in the present array, $deleted holds exactly
\* max(f-p, 0) copies of e, $inserted exactly max(p-f, 0) and $other exactly min(f, p).
C4_ArrayBucketsByCount ==
    (diff.status = "ok" /\ diff.edits = hist.edits) =>
        \A i \in BothSidedArrays :
            LET fs == heap[diff.lk[i].formerObject].vals
                ps == heap[diff.lk[i].presentObject].vals
                node == diff.nodes[i]
                es == {e \in {ItemEntity(heap, fs[m]) : m \in 1..Len(fs)} \cup
                              {ItemEntity(heap, ps[m]) : m \in 1..Len(ps)} : Countable(e)}
            IN \A e \in es :
                  LET f == CountItems(heap, fs, e)
                      p == CountItems(heap, ps, e)
                  IN /\ CountBucket(heap, node.deleted, e) = Max(f - p, 0)
                     /\ CountBucket(heap, node.inserted, e) = Max(p - f, 0)
                     /\ CountBucket(heap, node.other, e) = Min(f, p)

\* a diffed array with an entry that occurs twice in the former and once in the present
\* array, next to an entry deleted and an entry inserted
C4_Witness ==
    /\ diff.status = "ok"
    /\ diff.edits = hist.edits
    /\ \E i \in BothSidedArrays :
          /\ \E e \in {ItemEntity(heap, heap[diff.lk[i].formerObject].vals[m]) :
                          m \in 1..Len(heap[diff.lk[i].formerObject].vals)} :
                /\ CountItems(heap, heap[diff.lk[i].formerObject].vals, e) = 2
                /\ CountItems(heap, heap[diff.lk[i].presentObject].vals, e) = 1
          /\ Len(diff.nodes[i].deleted) > 1
          /\ Len(diff.nodes[i].inserted) > 0

\* ---------------------------------------------------------------- C11
\* no item of the array is a function
NoFnItems(items) == \A m \in 1..Len(items) : items[m].t # "fn"

\* the former and the present array of node i hold every element equally often
SameCounts(i) ==
    LET fs == heap[diff.lk[i].formerObject].vals
        ps == heap[diff.lk[i].presentObject].vals
    IN /\ NoFnItems(fs)
       /\ NoFnItems(ps)
       /\ \A e \in {ItemEntity(heap, fs[m]) : m \in 1..Len(fs)} \cup {ItemEntity(heap, ps[m]) : m \in 1..Len(ps)} :
             CountItems(heap, fs, e) = CountItems(heap, ps, e)

\* the object-diff nodes of the elements of array node i that were mutated in place:
\* the element is in both revisions and one of its own keys differs
MutatedElements(i) ==
    {j \in BothSided : /\ \E m \in 1..Len(heap[diff.lk[i].presentObject].vals) :
                              heap[diff.lk[i].presentObject].vals[m] = Ref(diff.lk[j].presentObject)
                       /\ SomeKeyDiffers(heap, diff.lk[j].formerObject, diff.lk[j].presentObject)}

ReorderedArrayDiffed ==
    /\ diff.status = "ok"
    /\ diff.edits = hist.edits
    /\ diff.last.op = "reverse"
    /\ \E i \in BothSidedArrays :
          /\ SameCounts(i)
          /\ heap[diff.lk[i].formerObject].vals # heap[diff.lk[i].presentObject].vals
          /\ Len(diff.nodes[i].other) > 1

\* ---------------------------------------------------------------- snapshots of parts and values
\* A host that calls takeSnapshot on whatever it holds, on any of its checkers:
\* the model, a part of it, a snapshot, a value-like instance, a primitive, a function.
SnapshotArgs == {Ref(a) : a \in HostRefs} \cup {Num(1), Undef, Null, Fn}

\* the state after checker c ran takeSnapshot(x) with outcome r = [heap, cur, ret]
Snapshotted(c, x, r, threw) ==
    /\ Step(r.heap)
    /\ heap' = r.heap
    /\ currentObjectId' = [currentObjectId EXCEPT ![c] = r.cur]
    /\ snap' = r.ret
    /\ hist' = [hist EXCEPT !.steps = @ + 1, !.snaps = @ + 1,
                            !.edits = IF x.t = "ref" THEN @ + 1 ELSE @,
                            !.snapEdits = IF x.t = "ref" THEN hist.edits + 1 ELSE @,
                            !.cloned = r.map,
                            !.last = [op |-> "snapshot", obj |-> 0, checker |-> c, of |-> x, threw |-> threw,
                                       allocated |-> r.cur - currentObjectId[c]]]
    /\ UNCHANGED <<model, valueLikePlugins, referenceLikePlugins, diff, unwrapped, dirty, merged>>

\* The functions a host can pass: an arrow function has no prototype property, a
\* strict-mode function or class has one, and so has a non-strict function.
FnKinds == {"arrow", "strict", "sloppy"}

\* takeSnapshot(x): src/src/ChangeChecker.ts:45-53.  A primitive fails the instanceof
\* test and throws.  A function passes it: assignObjectIds stamps the function and,
\* where it has one, its prototype object, and reads its arguments property, which
\* throws a TypeError unless the function is non-strict; clone then returns undefined.
TakeSnapshotOf ==
    \E c \in Checkers, x \in SnapshotArgs, fn \in FnKinds :
        /\ hist.snaps < MaxCalls
        /\ IF x.t = "ref"
           THEN /\ fn = "arrow"
                /\ LET r == takeSnapshot(heap, currentObjectId[c], x.v)
                   IN Snapshotted(c, x, IF r.threw THEN [r EXCEPT !.ret = snap, !.map = hist.cloned] ELSE r,
                                  r.threw)
           ELSE IF x.t = "fn"
           THEN Snapshotted(c, x, [heap |-> heap, ret |-> snap, map |-> hist.cloned,
                                   cur |-> currentObjectId[c] + (IF fn = "arrow" THEN 1 ELSE 2)],
                            fn # "sloppy")
           ELSE fn = "arrow" /\ Snapshotted(c, x, [heap |-> heap, cur |-> currentObjectId[c], ret |-> snap,
                                                     map |-> hist.cloned], TRUE)

NextSnap ==
    \/ TakeSnapshotOf
    \/ SetPropNew
    \/ PushNew
    \/ CreateDiff

SpecSnap == Init /\ [][NextSnap]_vars

\* ---------------------------------------------------------------- C12
\* x and y are distinct value-like instances that the plugin's equals reports equal
EqualInstances(h, x, y) ==
    /\ isValueLike(h, x)
    /\ isValueLike(h, y)
    /\ x # y
    /\ Denotes(h, x) = Denotes(h, y)

\* equal instances as the former and the present value of a property give an unchanged
\* property diff; in an array of both revisions they are kept, not inserted plus deleted
ValueLikesComparedByEquals ==
    (diff.status = "ok" /\ diff.edits = hist.edits) =>
        /\ \A i \in BothSided :
              \A k \in SeqToSet(heap[diff.lk[i].formerObject].keys) :
                 EqualInstances(heap, GetProp(heap[diff.lk[i].formerObject], k),
                                      GetProp(heap[diff.lk[i].presentObject], k))
                 => /\ IndexOf(diff.nodes[i].pkeys, k) # 0
                    /\ ~diff.nodes[i].pdiffs[IndexOf(diff.nodes[i].pkeys, k)].isChanged
        /\ \A i \in BothSidedArrays :
              LET fs == heap[diff.lk[i].formerObject].vals
                  ps == heap[diff.lk[i].presentObject].vals
              IN \A m \in 1..Len(fs), n \in 1..Len(ps) :
                    EqualInstances(heap, fs[m], ps[n])
                    => LET e == ItemEntity(heap, fs[m])
                       IN /\ CountBucket(heap, diff.nodes[i].other, e)
                                = Min(CountItems(heap, fs, e), CountItems(heap, ps, e))
                          /\ ~(CountBucket(heap, diff.nodes[i].inserted, e) > 0
                                /\ CountBucket(heap, diff.nodes[i].deleted, e) > 0)

\* no instance that a value-like plugin matches carries an identity token
ValueLikesNeverTokened ==
    \A a \in 1..Len(heap) : isValueLike(heap, Ref(a)) => heap[a].id = NoId

\* C12: with a value-like plugin registered, two distinct instances that the plugin's
\* equals reports equal give an unchanged property diff as the former and the present
\* value of a property, in an array of both revisions they are kept ($other), never
\* one inserted plus one deleted; and takeSnapshot never gives an instance matched by
\* a value-like plugin an identity token.
C12_ValueLikes == ValueLikesComparedByEquals /\ ValueLikesNeverTokened

\* a diff that compared equal instances as property values and as array items
ValueLikesCompared ==
    /\ diff.status = "ok"
    /\ diff.edits = hist.edits
    /\ \E i \in BothSided : \E k \in SeqToSet(heap[diff.lk[i].formerObject].keys) :
          EqualInstances(heap, GetProp(heap[diff.lk[i].formerObject], k), GetProp(heap[diff.lk[i].presentObject], k))
    /\ \E i \in BothSidedArrays :
          \E m \in 1..Len(heap[diff.lk[i].formerObject].vals), n \in 1..Len(heap[diff.lk[i].presentObject].vals) :
             EqualInstances(heap, heap[diff.lk[i].formerObject].vals[m], heap[diff.lk[i].presentObject].vals[n])

\* ---------------------------------------------------------------- C13
\* the latest snapshot was taken of the model and no object was written since
FreshSnapshot ==
    /\ snap # 0
    /\ hist.snapEdits = hist.edits
    /\ hist.last.op = "snapshot" => hist.last.of = Ref(model)
    /\ heap[snap].id = heap[model].id
    /\ heap[snap].id # NoId

\* the number of items of an array that are not functions
NonFnItems(items) == Cardinality({m \in 1..Len(items) : items[m].t # "fn"})

\* the snapshot holds no function: a function-valued key of a model object is no key
\* of its clone, and the clone of an array has the model array's other items only
SnapshotOmitsFunctions ==
    FreshSnapshot =>
        /\ ~HasFn(heap, snap)
        /\ \A a \in Composites(heap, model) :
              \E b \in Composites(heap, snap) :
                 /\ heap[b].id = heap[a].id
                 /\ heap[b].kind = heap[a].kind
                 /\ IF heap[a].kind = "obj"
                    THEN SeqToSet(heap[b].keys) = {k \in SeqToSet(heap[a].keys) : GetProp(heap[a], k).t # "fn"}
                    ELSE Len(heap[b].vals) = NonFnItems(heap[a].vals)

\* no bound key of an object diff holds a function in the former or the present instance
DiffOmitsFunctions ==
    (diff.status = "ok" /\ diff.edits = hist.edits) =>
        \A i \in 1..Len(diff.nodes) :
            diff.nodes[i].kind = "obj" =>
                \A j \in 1..Len(diff.nodes[i].pkeys) :
                    /\ diff.lk[i].formerObject # 0
                          => GetProp(heap[diff.lk[i].formerObject], diff.nodes[i].pkeys[j]).t # "fn"
                    /\ diff.lk[i].presentObject # 0
                          => GetProp(heap[diff.lk[i].presentObject], diff.nodes[i].pkeys[j]).t # "fn"
                    /\ diff.nodes[i].pdiffs[j].value.t # "fn"
                    /\ diff.nodes[i].pdiffs[j].formerValue.t # "fn"

\* C13: a property whose value is a function in the model is absent from the
\* snapshot, a function element of an array is omitted from the snapshot array, and
\* no object diff carries a property diff for a key whose value is a function in the
\* former or in the present revision.
C13_FunctionsAreOmitted == SnapshotOmitsFunctions /\ DiffOmitsFunctions

\* a diff of a snapshot of a model with a function-valued property and a function
\* item, in which some key holds a function on one side and a value on the other
C13_Witness ==
    /\ diff.status = "ok"
    /\ diff.edits = hist.edits
    /\ ~HasFn(heap, snap)
    /\ \E a \in Composites(heap, model) :
          heap[a].kind = "arr" /\ NonFnItems(heap[a].vals) < Len(heap[a].vals)
    /\ \E i \in BothSided : \E k \in SeqToSet(diff.lk[i].propertyKeys) :
          /\ IndexOf(diff.nodes[i].pkeys, k) = 0
          /\ {GetProp(heap[diff.lk[i].formerObject], k).t, GetProp(heap[diff.lk[i].presentObject], k).t}
                = {"fn", "num"}

\* ---------------------------------------------------------------- C14
\* the objects of the snapshot that carry the token of model object a
\* the clone takeSnapshot made of the object a of the model (its referenceMap)
Counterpart(a) == hist.cloned[a]

\* the objects of the model whose clone is the object b of the snapshot
Sources(b) == {a \in Composites(heap, model) : Counterpart(a) = b}

IsCloneOf(v, w) ==
    IF v.t # "ref" THEN w = v
    ELSE IF isValueLike(heap, v)
         THEN w.t = "ref" /\ w.v # v.v /\ isValueLike(heap, w) /\ Denotes(heap, w) = Denotes(heap, v)
         ELSE w = Ref(Counterpart(v.v))

\* the items of an array that are not functions, in order
DataItems(items) == SelectSeq(items, LAMBDA x : x.t # "fn")

\* b is built like a: the same keys with cloned values, the same items cloned in order
ClonedLike(a, b) ==
    /\ heap[b].kind = heap[a].kind
    /\ IF heap[a].kind = "obj"
       THEN /\ SeqToSet(heap[b].keys) = {k \in SeqToSet(heap[a].keys) : GetProp(heap[a], k).t # "fn"}
            /\ \A k \in SeqToSet(heap[b].keys) : IsCloneOf(GetProp(heap[a], k), GetProp(heap[b], k))
       ELSE /\ Len(heap[b].vals) = Len(DataItems(heap[a].vals))
            /\ \A m \in 1..Len(heap[b].vals) : IsCloneOf(DataItems(heap[a].vals)[m], heap[b].vals[m])

AliasSnapshotted ==
    /\ FreshSnapshot
    /\ \E a, b \in Composites(heap, model) : \E m \in 1..NumSlots(heap[a]), n \in 1..NumSlots(heap[b]) :
          /\ <<a, m>> # <<b, n>>
          /\ heap[a].vals[m].t = "ref"
          /\ heap[a].vals[m] = heap[b].vals[n]
          /\ ~isValueLike(heap, heap[a].vals[m])

\* ---------------------------------------------------------------- C15
\* v refers to a correlated entity: an object or array with a token, or one without
\* token that is reachable in the present graph
InScope(v) ==
    /\ v.t = "ref"
    /\ ~isValueLike(heap, v)
    /\ (heap[v.v].id # NoId \/ v.v \in Composites(heap, diff.present))

\* the correlation records of the entity v refers to
EntriesOf(v) ==
    {i \in 1..Len(diff.lk) :
        IF heap[v.v].id # NoId
        THEN \/ diff.lk[i].formerObject # 0 /\ heap[diff.lk[i].formerObject].id = heap[v.v].id
             \/ diff.lk[i].presentObject # 0 /\ heap[diff.lk[i].presentObject].id = heap[v.v].id
        ELSE diff.lk[i].formerObject = v.v \/ diff.lk[i].presentObject = v.v}

\* what a slot value must appear as in the diff: the node of its entity
NodeOf(v) == DiffV(CHOOSE i \in EntriesOf(v) : TRUE)

\* an untokened object that is present-only, or a tokened one
OneNodeEntity(v) ==
    InScope(v) /\ (heap[v.v].id # NoId \/ v.v \notin Composites(heap, diff.former))

\* x appears in the diff where slot value v was resolved
ResolvedAs(v, x) == OneNodeEntity(v) => (EntriesOf(v) # {} /\ x = NodeOf(v))

\* C15: in a diff returned by createDiff each correlated entity (a token, or an
\* untokened present-only object) has exactly one diff node, every property-diff
\* value and array-diff entry that refers to the entity is that node, and the $value
\* of the self property diff of a self-referencing object is the object's own node.
C15_OneNodePerEntity ==
    (diff.status = "ok" /\ diff.edits = hist.edits) =>
        /\ \A a \in Composites(heap, diff.former) \cup Composites(heap, diff.present) :
              OneNodeEntity(Ref(a)) => Cardinality(EntriesOf(Ref(a))) = 1
        /\ \A i \in 1..Len(diff.nodes) :
              LET node == diff.nodes[i]
                  f == diff.lk[i].formerObject
                  p == diff.lk[i].presentObject
              IN IF node.kind = "obj"
                 THEN \A j \in 1..Len(node.pkeys) :
                         /\ p # 0 => ResolvedAs(GetProp(heap[p], node.pkeys[j]), node.pdiffs[j].value)
                         /\ (p = 0 /\ f # 0) => ResolvedAs(GetProp(heap[f], node.pkeys[j]), node.pdiffs[j].value)
                         /\ node.pdiffs[j].isChanged
                               => ResolvedAs(GetProp(heap[f], node.pkeys[j]), node.pdiffs[j].formerValue)
                 ELSE /\ p # 0 => \A m \in 1..Len(heap[p].vals) :
                              OneNodeEntity(heap[p].vals[m])
                              => \E n \in 1..Len(node.inserted \o node.other) :
                                    ResolvedAs(heap[p].vals[m], (node.inserted \o node.other)[n])
                      /\ f # 0 => \A m \in 1..Len(heap[f].vals) :
                              OneNodeEntity(heap[f].vals[m])
                              => \E n \in 1..Len(node.deleted \o node.other) :
                                    ResolvedAs(heap[f].vals[m], (node.deleted \o node.other)[n])
                      /\ \A n \in 1..Len(node.inserted \o node.deleted \o node.other) :
                              ~OneNodeEntity((node.inserted \o node.deleted \o node.other)[n])
        /\ \A i \in 1..Len(diff.nodes) : \A j \in 1..Len(diff.nodes[i].pkeys) :
              LET p == diff.lk[i].presentObject
              IN (p # 0 /\ GetProp(heap[p], diff.nodes[i].pkeys[j]) = Ref(p))
                 => diff.nodes[i].pdiffs[j].value = DiffV(i)

\* a diff of an object whose property refers to the object itself, next to an object
\* referred to by two slots
C15_Witness ==
    /\ diff.status = "ok"
    /\ diff.edits = hist.edits
    /\ \E i \in 1..Len(diff.nodes) : \E j \in 1..Len(diff.nodes[i].pkeys) :
          /\ diff.lk[i].presentObject # 0
          /\ GetProp(heap[diff.lk[i].presentObject], diff.nodes[i].pkeys[j]) = Ref(diff.lk[i].presentObject)
          /\ diff.nodes[i].pdiffs[j].value = DiffV(i)
    /\ \E i, k \in 1..Len(diff.nodes) : \E j \in 1..Len(diff.nodes[i].pkeys), m \in 1..Len(diff.nodes[k].pkeys) :
          /\ <<i, j>> # <<k, m>>
          /\ diff.nodes[i].pdiffs[j].value.t = "diff"
          /\ diff.nodes[i].pdiffs[j].value = diff.nodes[k].pdiffs[m].value

\* ---------------------------------------------------------------- C16
\* S = takeSnapshot(M), then at most a mutation of M; createDiff(S, M) was unwrapped
UnwrappedAfterMutation ==
    /\ DiffOfSnapshot
    /\ hist.merges = 0
    /\ diff.since > 0 => diff.last.obj \in Composites(heap, model)
    /\ ~HasFn(heap, model)
    /\ unwrapped.status = "done"
    /\ unwrapped.at = hist.diffs

\* the root of the era's graph, and the era's instance of node i
EraRoot == IF unwrapped.era = "Former" THEN snap ELSE model
EraObject(i) == IF unwrapped.era = "Former" THEN diff.lk[i].formerObject ELSE diff.lk[i].presentObject

\* the nodes $unwrap built an object for
Built == DOMAIN unwrapped.map

\* a slot value up to the identity of the instances: a value-like counts by its value
Norm(w) == IF w.t = "ref" /\ isValueLike(heap, w) THEN Denotes(heap, w) ELSE w

\* what the slot value v of the era's graph corresponds to in the result
Corr(v) ==
    IF v.t = "ref" /\ ~isValueLike(heap, v)
    THEN IF \E i \in Built : EraObject(i) = v.v
         THEN Ref(unwrapped.map[CHOOSE i \in Built : EraObject(i) = v.v])
         ELSE [t |-> "missing", v |-> v.v]
    ELSE Norm(v)

\* how often c occurs among the items, up to the correspondence
Occurrences(items, c, corr) ==
    Cardinality({m \in 1..Len(items) : (IF corr THEN Corr(items[m]) ELSE Norm(items[m])) = c})

\* what a diff entry unwraps to
UnwrappedEntry(x) == IF x.t = "diff" THEN Ref(unwrapped.map[x.v]) ELSE x

\* the object built for node i matches the era's instance of i
Reconstructs(i) ==
    LET e == heap[EraObject(i)]
        r == heap[unwrapped.map[i]]
        tail == IF unwrapped.era = "Former" THEN diff.nodes[i].deleted ELSE diff.nodes[i].inserted
        entries == diff.nodes[i].other \o tail
    IN /\ EraObject(i) # 0
       /\ r.kind = e.kind
       /\ IF e.kind = "obj"
          THEN \A k \in SeqToSet(e.keys) \cup SeqToSet(r.keys) : Norm(GetProp(r, k)) = Corr(GetProp(e, k))
          ELSE /\ Len(r.vals) = Len(entries)
               /\ \A m \in 1..Len(entries) : r.vals[m] = UnwrappedEntry(entries[m])
               /\ Len(r.vals) = Len(e.vals)
               /\ \A m \in 1..Len(e.vals) :
                     Occurrences(e.vals, Corr(e.vals[m]), TRUE) = Occurrences(r.vals, Corr(e.vals[m]), FALSE)

PresentUnwrappedAfterMutation ==
    /\ UnwrappedAfterMutation
    /\ unwrapped.era = "Present"
    /\ diff.since = 1
    /\ \E i \in Built : diff.nodes[i].isCreated

\* ---------------------------------------------------------------- C17
\* the last diff was unwrapped
UnwrappedLastDiff == unwrapped.status = "done" /\ unwrapped.at = hist.diffs /\ diff.status = "ok"

\* the object built for node i has the token of the node
CarriesToken(i) == diff.nodes[i].id # NoId => heap[unwrapped.map[i]].id = diff.nodes[i].id

\* C17: every object and array produced by $unwrap(era), for both eras, carries the
\* identity token of the diff node it was built from whenever that node has one,
\* so the unwrapped root can be given to a later createDiff or takeSnapshot.
C17_UnwrappedCarryTokens ==
    UnwrappedLastDiff => \A i \in Built : CarriesToken(i)

\* the same for the present era only
PresentUnwrappedCarryTokens ==
    (UnwrappedLastDiff /\ unwrapped.era = "Present") => \A i \in Built : CarriesToken(i)

\* the same for arrays and for objects that have a property, whatever the era
NonEmptyUnwrappedCarryTokens ==
    UnwrappedLastDiff =>
        \A i \in Built : (diff.nodes[i].kind = "arr" \/ Len(diff.nodes[i].pkeys) > 0) => CarriesToken(i)

\* a tokened node was unwrapped in each of the two ways
FormerTokenedUnwrapped ==
    UnwrappedLastDiff /\ unwrapped.era = "Former" /\ \E i \in Built : diff.nodes[i].id # NoId
PresentTokenedUnwrapped ==
    UnwrappedLastDiff /\ unwrapped.era = "Present" /\ \E i \in Built : diff.nodes[i].id # NoId

\* ---------------------------------------------------------------- C18
\* this step is a takeSnapshot call on an object or array
SnapshotStep == hist'.snaps = hist.snaps + 1 /\ hist'.last.of.t = "ref"

\* what assignObjectIds visits from a: a itself and the composites reachable from it
GraphOf(h, a) == {a} \cup Composites(h, a)

\* the objects that had no token before the step and have one after it
Stamped == {a \in 1..Len(heap) : heap[a].id = NoId /\ heap'[a].id # NoId}

\* C18: takeSnapshot on a graph whose objects and arrays all carry tokens already
\* (a model snapshotted before, or a snapshot) allocates no token and leaves every
\* token as it is; in any takeSnapshot call only objects lacking a token get one.
C18_TokensAssignedOnce ==
    [][SnapshotStep =>
        LET x == hist'.last.of.v
            c == hist'.last.checker
        IN /\ \A a \in 1..Len(heap) : heap[a].id # NoId => heap'[a].id = heap[a].id
           /\ Stamped \subseteq GraphOf(heap, x)
           /\ currentObjectId'[c] - currentObjectId[c] = Cardinality(Stamped)
           /\ (\A a \in GraphOf(heap, x) : heap[a].id # NoId) =>
                 /\ currentObjectId' = currentObjectId
                 /\ Stamped = {}]_vars

\* a second takeSnapshot ran on a graph of several objects, all tokened: the model
\* again, or the snapshot
C18_Witness ==
    /\ hist.snaps = 2
    /\ hist.last.op = "snapshot"
    /\ hist.last.of.t = "ref"
    /\ hist.last.allocated = 0
    /\ Cardinality(Composites(heap, hist.last.of.v)) > 1
    /\ \A a \in Composites(heap, hist.last.of.v) : heap[a].id # NoId

\* a second takeSnapshot ran on a model that had got an object without token since
PartlyTokenedSnapshotted ==
    /\ hist.snaps = 2
    /\ hist.last.op = "snapshot"
    /\ hist.last.of = Ref(model)
    /\ hist.last.allocated = 1
    /\ Cardinality(Composites(heap, model)) > 2

\* ---------------------------------------------------------------- C19
\* the token given to a in this step is carried by no object that existed before
\* the step and by no other object stamped in it
FreshToken(a) ==
    /\ \A b \in 1..Len(heap) : heap[b].id # heap'[a].id
    /\ \A b \in Stamped : b # a => heap'[b].id # heap'[a].id

\* no step takes a token away from an object or replaces it
TokensKept == \A a \in 1..Len(heap) : heap[a].id # NoId => heap'[a].id = heap[a].id

\* no counter goes down, and a token handed out is the counter value it advanced over
CountersIncrease ==
    /\ \A c \in Checkers : currentObjectId'[c] >= currentObjectId[c]
    /\ \A a \in Stamped : \E c \in Checkers : currentObjectId[c] <= heap'[a].id /\ heap'[a].id < currentObjectId'[c]

\* C19: identity tokens are unique per process: over any sequence of takeSnapshot
\* calls, on whichever ChangeChecker instance, the assigner never gives the same
\* token to two different objects, a new token comes from a counter that only
\* increases and is never reused, and the token of an object is never reassigned.
C19_TokensUniquePerProcess ==
    [][/\ TokensKept
       /\ CountersIncrease
       /\ \A a \in Stamped : FreshToken(a)]_vars

\* the same as long as only the first checker instance has handed out tokens
TokensUniquePerChecker ==
    [][(\A c \in Checkers : c # 1 => currentObjectId'[c] = 0) =>
          /\ TokensKept
          /\ CountersIncrease
          /\ \A a \in Stamped : FreshToken(a)]_vars

\* the parts of the claim about the counters and about reassignment
TokensMonotone == [][TokensKept /\ CountersIncrease]_vars

\* two checker instances have handed out tokens
TwoCheckersAllocated == \A c \in Checkers : currentObjectId[c] > 0

\* ---------------------------------------------------------------- C20
\* this step is a takeSnapshot call on a value that is no object and no array
InvalidSnapshotStep == hist'.snaps = hist.snaps + 1 /\ hist'.last.of.t # "ref"

\* this step is a createDiff call
DiffStep == hist'.diffs = hist.diffs + 1

\* the roots given to createDiff are not both tokened, or their tokens differ
InvalidRoots(f, p) == heap[f].id = NoId \/ heap[p].id = NoId \/ heap[f].id # heap[p].id

\* the call threw and left the heap and the counters as they were
Rejected(threw) == threw /\ heap' = heap /\ currentObjectId' = currentObjectId

\* C20: invalid input is rejected with no partial effect: takeSnapshot on a value
\* that is not an object or array throws without assigning a token or advancing
\* the counter, and createDiff throws when an argument is not a tokened object or
\* the two root tokens differ, without modifying either argument.
C20_InvalidInputRejected ==
    [][/\ InvalidSnapshotStep => Rejected(hist'.last.threw)
       /\ (DiffStep /\ InvalidRoots(diff'.former, diff'.present)) => Rejected(diff'.status = "invalid")]_vars

\* the same for takeSnapshot on a number, null or undefined
PrimitivesRejected ==
    [][(InvalidSnapshotStep /\ hist'.last.of.t # "fn") => Rejected(hist'.last.threw)]_vars

\* the part about createDiff
InvalidRootsRejected ==
    [][(DiffStep /\ InvalidRoots(diff'.former, diff'.present)) => Rejected(diff'.status = "invalid")]_vars

\* createDiff was called with untokened roots, and with roots of differing tokens
UntokenedRootsDiffed ==
    /\ diff.status = "invalid"
    /\ heap[diff.former].id = NoId
DifferingRootsDiffed ==
    /\ diff.status = "invalid"
    /\ heap[diff.former].id # NoId
    /\ heap[diff.present].id # NoId
    /\ heap[diff.former].id # heap[diff.present].id

\* takeSnapshot was called with a primitive
PrimitiveSnapshotted == hist.last.op = "snapshot" /\ hist.last.of.t \in {"num", "null", "undef"}

\* ---------------------------------------------------------------- plugin registration
\* The plugins a host can register: a name and the isValueLikePlugin flag.  A name
\* stands for the isMatch, clone and equals functions; the reference-like plugin
\* "mark" has no clone function.
PluginNames == {"date", "time", "node", "mark"}
Plugins == [name : PluginNames, isValueLikePlugin : BOOLEAN]

\* fault: only the list the plugin would go to is searched for its name
addPlugin_OwnListOnly(vl, rl, plugin) ==
    IF plugin.isValueLikePlugin
    THEN IF plugin.name \in SeqToSet(vl) THEN [threw |-> TRUE, vl |-> vl, rl |-> rl]
         ELSE [threw |-> FALSE, vl |-> Append(vl, plugin.name), rl |-> rl]
    ELSE IF plugin.name \in SeqToSet(rl) THEN [threw |-> TRUE, vl |-> vl, rl |-> rl]
         ELSE [threw |-> FALSE, vl |-> vl, rl |-> Append(rl, plugin.name)]

\* addPlugin(plugin) on the lists vl (value-like) and rl (reference-like)
addPlugin(vl, rl, plugin) ==
    IF plugin.name \in SeqToSet(rl) \/ plugin.name \in SeqToSet(vl)
    THEN [threw |-> TRUE, vl |-> vl, rl |-> rl]
    ELSE IF plugin.isValueLikePlugin
         THEN [threw |-> FALSE, vl |-> Append(vl, plugin.name), rl |-> rl]
         ELSE [threw |-> FALSE, vl |-> vl, rl |-> Append(rl, plugin.name)]

\* removePlugin(name)
removePlugin(vl, rl, name) ==
    IF IndexOf(rl, name) # 0 THEN [threw |-> FALSE, vl |-> vl, rl |-> RemoveAt(rl, IndexOf(rl, name))]
    ELSE IF IndexOf(vl, name) # 0 THEN [threw |-> FALSE, vl |-> RemoveAt(vl, IndexOf(vl, name)), rl |-> rl]
    ELSE [threw |-> TRUE, vl |-> vl, rl |-> rl]

\* the state after a registration call with outcome r; order lists the registered
\* names by the time of their registration
Registered(r, what) ==
    /\ Step(heap)
    /\ valueLikePlugins' = r.vl
    /\ referenceLikePlugins' = r.rl
    /\ hist' = [hist EXCEPT !.steps = @ + 1, !.plugs = @ + 1, !.last = what @@ [threw |-> r.threw, obj |-> 0],
                            !.order = IF r.threw THEN @
                                      ELSE IF what.op = "addPlugin" THEN Append(@, what.plugin.name)
                                      ELSE SelectSeq(@, LAMBDA n : n # what.name)]
    /\ UNCHANGED <<heap, model, snap, currentObjectId, diff, unwrapped, dirty, merged>>

AddPlugin ==
    \E plugin \in Plugins :
        /\ hist.plugs < MaxPlug
        /\ Registered(addPlugin(valueLikePlugins, referenceLikePlugins, plugin),
                      [op |-> "addPlugin", plugin |-> plugin])

RemovePlugin ==
    \E name \in PluginNames :
        /\ hist.plugs < MaxPlug
        /\ Registered(removePlugin(valueLikePlugins, referenceLikePlugins, name),
                      [op |-> "removePlugin", name |-> name])

\* models with a Date and an instance of the host's class: one that refers to itself,
\* one that is referred back to by a plain object it holds, one with a number only
PlugSeedSelf == <<Obj(NoId, <<"a", "b">>, <<Ref(2), Ref(3)>>), Node(<<"a">>, <<Ref(2)>>), Date(1)>>
PlugSeedBack == <<Obj(NoId, <<"a", "b">>, <<Ref(2), Ref(4)>>), Node(<<"a", "b">>, <<Ref(3), Num(1)>>),
                  Obj(NoId, <<"a">>, <<Ref(2)>>), Date(1)>>
PlugSeedLeaf == <<Obj(NoId, <<"a", "b">>, <<Ref(2), Ref(3)>>), Node(<<"a">>, <<Num(2)>>), Date(2)>>
PlugSeeds == {PlugSeedSelf, PlugSeedBack, PlugSeedLeaf}

InitPlug ==
    /\ heap \in PlugSeeds
    /\ model = 1
    /\ snap = 0
    /\ currentObjectId = [c \in Checkers |-> 0]
    /\ valueLikePlugins = <<>>
    /\ referenceLikePlugins = <<>>
    /\ diff = NoDiff
    /\ unwrapped = [status |-> "none"]
    /\ dirty = [status |-> "none"]
    /\ merged = [status |-> "none"]
    /\ hist = NoHist

NextPlug ==
    \/ AddPlugin
    \/ RemovePlugin
    \/ TakeSnapshot

SpecPlug == InitPlug /\ [][NextPlug]_vars

\* ---------------------------------------------------------------- C21
\* this step is an addPlugin or removePlugin call
PluginStep == hist'.plugs = hist.plugs + 1

\* the names registered in either list
Registry == SeqToSet(valueLikePlugins) \cup SeqToSet(referenceLikePlugins)

\* no name occurs twice in the two lists taken together
DistinctNames ==
    LET all == valueLikePlugins \o referenceLikePlugins
    IN \A i, j \in 1..Len(all) : all[i] = all[j] => i = j

\* the call of this step threw and left both lists as they were
PluginCallThrew ==
    /\ hist'.last.threw
    /\ valueLikePlugins' = valueLikePlugins
    /\ referenceLikePlugins' = referenceLikePlugins

\* C21: after any sequence of addPlugin and removePlugin calls the plugin names are
\* pairwise distinct across the value-like and the reference-like list together;
\* addPlugin with a name registered in either list throws, removePlugin with a name
\* registered in neither throws, and a call that throws leaves both lists unchanged.
C21_PluginNamesDistinct ==
    [][/\ DistinctNames'
       /\ PluginStep =>
             /\ (hist'.last.op = "addPlugin" /\ hist'.last.plugin.name \in Registry) => PluginCallThrew
             /\ (hist'.last.op = "removePlugin" /\ hist'.last.name \notin Registry) => PluginCallThrew
             /\ hist'.last.threw => PluginCallThrew]_vars

\* addPlugin threw for a name held by the list of the other kind
C21_Witness ==
    /\ hist.last.op = "addPlugin"
    /\ hist.last.threw
    /\ IF hist.last.plugin.isValueLikePlugin
       THEN hist.last.plugin.name \in SeqToSet(referenceLikePlugins)
       ELSE hist.last.plugin.name \in SeqToSet(valueLikePlugins)

\* removePlugin threw for a name that is in neither list, after three calls
RemoveOfAbsentThrew ==
    /\ hist.last.op = "removePlugin"
    /\ hist.last.threw
    /\ hist.plugs = 3
    /\ Registry = {}

\* ---------------------------------------------------------------- C22
\* the last createDiff call threw a conflict error and the graphs are as it saw them
ConflictThrown == diff.status = "conflict" /\ diff.edits = hist.edits

\* the root of the side the conflict error names
ConflictRoot == IF diff.conflict.source = "FormerModel" THEN diff.former ELSE diff.present

\* the value reached from v by the path elements m.. of path: a property name or an index
RECURSIVE Follow(_, _, _)
Follow(v, path, m) ==
    IF m > Len(path) THEN v
    ELSE IF v.t # "ref" THEN Undef
    ELSE LET o == heap[v.v]
             e == path[m]
         IN IF o.kind = "arr"
            THEN IF e.i >= 0 /\ e.i < Len(o.vals) THEN Follow(o.vals[e.i + 1], path, m + 1) ELSE Undef
            ELSE IF e.i = -1 THEN Follow(GetProp(o, e.k), path, m + 1) ELSE Undef

\* the two paths of the error lead from the side's root to the two objects
PathsLead ==
    /\ Follow(Ref(ConflictRoot), diff.conflict.conflictingObjectLeftPath, 1)
          = Ref(diff.conflict.conflictingObjectLeft)
    /\ Follow(Ref(ConflictRoot), diff.conflict.conflictingObjectRightPath, 1)
          = Ref(diff.conflict.conflictingObjectRight)

\* the error names a token, and both objects carry it
TokenCarried ==
    /\ diff.conflict.objectId.t = "tok"
    /\ Tok(heap[diff.conflict.conflictingObjectLeft].id) = diff.conflict.objectId
    /\ Tok(heap[diff.conflict.conflictingObjectRight].id) = diff.conflict.objectId

\* C22: a conflict error thrown by createDiff carries the side in which the collision
\* lies, the colliding token as objectId, two distinct objects that both carry that
\* token, and two paths that lead from that side's root to the left and to the right
\* object.
C22_ConflictErrorDescribesCollision ==
    ConflictThrown =>
        /\ diff.conflict.source \in {"FormerModel", "PresentModel"}
        /\ diff.conflict.conflictingObjectLeft # diff.conflict.conflictingObjectRight
        /\ {diff.conflict.conflictingObjectLeft, diff.conflict.conflictingObjectRight}
               \subseteq Composites(heap, ConflictRoot)
        /\ TokenCarried
        /\ PathsLead

\* the same without the part about the token
ConflictErrorLocatesObjects ==
    ConflictThrown =>
        /\ diff.conflict.conflictingObjectLeft # diff.conflict.conflictingObjectRight
        /\ {diff.conflict.conflictingObjectLeft, diff.conflict.conflictingObjectRight}
               \subseteq Composites(heap, ConflictRoot)
        /\ PathsLead

\* the whole claim for the errors that name a token
TokenConflictErrorDescribesCollision ==
    (ConflictThrown /\ diff.conflict.objectId.t = "tok") =>
        /\ diff.conflict.conflictingObjectLeft # diff.conflict.conflictingObjectRight
        /\ TokenCarried
        /\ PathsLead

\* a conflict error with a token and paths of two elements was thrown
TokenConflictThrown ==
    /\ ConflictThrown
    /\ diff.conflict.objectId.t = "tok"
    /\ Len(diff.conflict.conflictingObjectRightPath) > 1

\* ---------------------------------------------------------------- iteration of an object diff
\* property names that are array indices, in ascending order, and their numbers
IndexKeyOrder == <<"1", "2">>
IterKeys == {"a", "b", "1", "2"}

\* the order in which the own property names of an object are enumerated
\* (Object.getOwnPropertyNames, Object.entries): ascending array indices first, then
\* the other names in the order of their creation
OwnPropertyKeys(created) ==
    SelectSeq(IndexKeyOrder, LAMBDA k : k \in SeqToSet(created)) \o
    SelectSeq(created, LAMBDA k : k \notin SeqToSet(IndexKeyOrder))

\* Object.entries(node) filtered by isPropertyDiff and mapped to pairs: the property
\* diffs were created on the node in the order of node.pkeys
propertyDiffs(node) ==
    LET order == OwnPropertyKeys(node.pkeys)
    IN [i \in 1..Len(order) |->
           [propertyName |-> order[i], propertyDiff |-> node.pdiffs[IndexOf(node.pkeys, order[i])]]]

\* Array.from(node): next() is called on a new iterator, whose index starts at -1,
\* until it reports done
RECURSIVE Drain(_, _, _)
Drain(entries, index, out) ==
    LET next == index + 1
    IN IF next \notin 0..(Len(entries) - 1) THEN out
       ELSE Drain(entries, next, Append(out, entries[next + 1]))

ArrayFrom(node) == Drain(propertyDiffs(node), -1, <<>>)

\* host code: Array.from(node) twice on an object-diff node of the last diff
Iterate ==
    \E i \in 1..MaxObj :
        /\ diff.status = "ok"
        /\ hist.queries < MaxQuery
        /\ Step(heap)
        /\ i <= Len(diff.nodes)
        /\ diff.nodes[i].kind # "arr"
        /\ hist' = [hist EXCEPT !.steps = @ + 1, !.queries = @ + 1,
                                !.last = [op |-> "iterate", obj |-> 0, node |-> i, at |-> hist.diffs,
                                          first |-> ArrayFrom(diff.nodes[i]),
                                          second |-> ArrayFrom(diff.nodes[i])]]
        /\ UNCHANGED <<heap, model, snap, currentObjectId, valueLikePlugins, referenceLikePlugins,
                       diff, unwrapped, dirty, merged>>

\* the key sequences an object can have: no key twice, enumerated as the language does
KeySeqs == {s \in SeqsUpTo(IterKeys, 3) :
               /\ \A i, j \in 1..Len(s) : s[i] = s[j] => i = j
               /\ OwnPropertyKeys(s) = s}

\* a snapshot with the keys fk and a model with the keys pk and the values pv
ObjHeap(fk, pk, pv) == <<Obj(0, fk, [i \in 1..Len(fk) |-> Num(1)]), Obj(0, pk, pv)>>

InitIter ==
    /\ \E fk \in KeySeqs, pk \in KeySeqs :
          \E pv \in [1..Len(pk) -> {Num(1), Num(2), Fn}] : heap = ObjHeap(fk, pk, pv)
    /\ model = 2
    /\ snap = 1
    /\ currentObjectId = [c \in Checkers |-> IF c = 1 THEN 1 ELSE 0]
    /\ valueLikePlugins = <<>>
    /\ referenceLikePlugins = <<>>
    /\ diff = NoDiff
    /\ unwrapped = [status |-> "none"]
    /\ dirty = [status |-> "none"]
    /\ merged = [status |-> "none"]
    /\ hist = [NoHist EXCEPT !.snaps = 1, !.snapEdits = 1, !.edits = 2]

NextIter ==
    \/ CreateDiff
    \/ Iterate

SpecIter == InitIter /\ [][NextIter]_vars

\* ---------------------------------------------------------------- C23
\* an object-diff node of the last diff was iterated
Iterated == hist.last.op = "iterate" /\ hist.last.at = hist.diffs /\ diff.status = "ok"

\* the keys of the two sides of node i in the order createDiff meets them: the keys
\* of the former object, then the keys only the present object has
Discovered(i) ==
    LET e == diff.lk[i]
        fk == IF e.formerObject # 0 THEN getPropertyKeys(heap[e.formerObject]) ELSE <<>>
        pk == IF e.presentObject # 0 THEN getPropertyKeys(heap[e.presentObject]) ELSE <<>>
    IN fk \o SelectSeq(pk, LAMBDA k : k \notin SeqToSet(fk))

\* the value of key k on the two sides of node i
SideValues(i, k) ==
    LET e == diff.lk[i]
    IN {IF e.formerObject # 0 THEN GetProp(heap[e.formerObject], k) ELSE Undef,
        IF e.presentObject # 0 THEN GetProp(heap[e.presentObject], k) ELSE Undef}

\* the discovered keys whose value is a function on neither side
BoundKeys(i) == SelectSeq(Discovered(i), LAMBDA k : Fn \notin SideValues(i, k))

\* the pairs are those of the keys ks, each with the property diff of its key
PairsOf(pairs, i, ks) ==
    /\ Len(pairs) = Len(ks)
    /\ \A m \in 1..Len(pairs) :
          /\ pairs[m].propertyName = ks[m]
          /\ pairs[m].propertyDiff = diff.nodes[i].pdiffs[IndexOf(diff.nodes[i].pkeys, ks[m])]

\* C23: iterating an object diff yields exactly one {propertyName, propertyDiff} pair
\* per bound (non-function) property key, in key discovery order, and never a state,
\* flag or method member; every call starts a fresh iteration, so iterating the same
\* node twice yields the same finite sequence.
C23_IterationInDiscoveryOrder ==
    Iterated =>
        /\ PairsOf(hist.last.first, hist.last.node, BoundKeys(hist.last.node))
        /\ hist.last.second = hist.last.first

\* the same up to the order of the pairs
IterationYieldsBoundKeys ==
    Iterated =>
        /\ Len(hist.last.first) = Len(BoundKeys(hist.last.node))
        /\ \A k \in SeqToSet(BoundKeys(hist.last.node)) :
              \E m \in 1..Len(hist.last.first) :
                 /\ hist.last.first[m].propertyName = k
                 /\ hist.last.first[m].propertyDiff
                       = diff.nodes[hist.last.node].pdiffs[IndexOf(diff.nodes[hist.last.node].pkeys, k)]
        /\ hist.last.second = hist.last.first

\* the same for objects none of whose keys is an array index
IterationOfNamedKeysInDiscoveryOrder ==
    (Iterated /\ SeqToSet(Discovered(hist.last.node)) \cap SeqToSet(IndexKeyOrder) = {}) =>
        PairsOf(hist.last.first, hist.last.node, BoundKeys(hist.last.node))

\* a node with several bound keys and a skipped function key was iterated
SeveralKeysIterated ==
    /\ Iterated
    /\ Len(hist.last.first) > 1
    /\ Len(Discovered(hist.last.node)) > Len(hist.last.first)

\* ---------------------------------------------------------------- C24
\* the array nodes of the last diff whose array exists in one revision only
OneSidedArrays ==
    {i \in 1..Len(diff.nodes) :
        /\ diff.nodes[i].kind = "arr"
        /\ (diff.lk[i].formerObject = 0) # (diff.lk[i].presentObject = 0)}

\* the array of the one-sided node i
OnlyArray(i) == heap[IF diff.lk[i].formerObject # 0 THEN diff.lk[i].formerObject ELSE diff.lk[i].presentObject]

\* the entry x of a bucket stands for the element v: the same primitive, an equal
\* value-like, the node correlated with the object v, or that object itself
StandsFor(x, v) ==
    IF v.t = "ref" /\ ~isValueLike(heap, v)
    THEN x = v \/ (x.t = "diff" /\ v.v \in {diff.lk[x.v].formerObject, diff.lk[x.v].presentObject})
    ELSE Norm(x) = Norm(v)

\* C24: an array that exists in only one revision (wholly created or wholly deleted)
\* has all of its non-function elements in $other, empty $inserted and $deleted,
\* isChanged false, and isCreated (present-only) or isDeleted (former-only) true.
C24_OneSidedArrayInOther ==
    (diff.status = "ok" /\ diff.edits = hist.edits) =>
        \A i \in OneSidedArrays :
            LET node == diff.nodes[i]
                data == DataItems(OnlyArray(i).vals)
                other == DataItems(node.other)
            IN /\ node.inserted = <<>>
               /\ node.deleted = <<>>
               /\ ~node.isChanged
               /\ node.isCreated = (diff.lk[i].formerObject = 0)
               /\ node.isDeleted = (diff.lk[i].presentObject = 0)
               /\ Len(other) = Len(data)
               /\ \A m \in 1..Len(data) : StandsFor(other[m], data[m])

\* an array with an element was created after the snapshot and diffed
C24_Witness ==
    /\ diff.status = "ok"
    /\ diff.edits = hist.edits
    /\ \E i \in OneSidedArrays : diff.nodes[i].isCreated /\ Len(OnlyArray(i).vals) > 0

\* an array with elements exists in the former revision only
DeletedArrayDiffed ==
    /\ diff.status = "ok"
    /\ diff.edits = hist.edits
    /\ \E i \in OneSidedArrays : diff.nodes[i].isDeleted /\ Len(OnlyArray(i).vals) > 1

\* ---------------------------------------------------------------- repeated createDiff calls
\* A host that calls createDiff several times on one checker, with the model and the
\* snapshot in either role
CreateDiffOf ==
    \E f \in {model, snap} \ {0}, p \in {model, snap} \ {0} :
        /\ hist.diffs < MaxCalls
        /\ Diffed(createDiff(heap, f, p), f, p)

NextCalls ==
    \/ TakeSnapshot
    \/ SetProp
    \/ SetPropNew
    \/ PushNew
    \/ CreateDiffOf

SpecCalls == Init /\ [][NextCalls]_vars

\* ---------------------------------------------------------------- C25
\* what createDiff(f, p) gives on a checker that never ran createDiff
FreshCall(f, p) == createDiffOn(<<>>, heap, f, p)

\* the outcome d of a call is the outcome r: same error or same diff, same heap
SameOutcome(d, h, r) ==
    /\ h = r.heap
    /\ d.status = r.out.status
    /\ \A fld \in DOMAIN r.out \ {"globalLookup"} : d[fld] = r.out[fld]

\* C25: the result of createDiff(former, present) depends only on its two arguments
\* and the registered plugins: it is the same whether or not the same checker ran
\* earlier createDiff calls, including calls that ended in a conflict error, because
\* no correlation record of an earlier call is visible in a later call.
C25_CreateDiffForgetsEarlierCalls ==
    [][DiffStep => SameOutcome(diff', heap', FreshCall(diff'.former, diff'.present))]_vars

\* a second call returned a diff after a call with the arguments the other way round
\* had returned one too, and after a call that had ended in a conflict error
C25_Witness ==
    /\ hist.diffs = 2
    /\ diff.status = "ok"
    /\ diff.prior = "conflict"

SecondDiffAfterDiff ==
    /\ hist.diffs = 2
    /\ diff.status = "ok"
    /\ diff.prior = "ok"
    /\ diff.former = model

\* ---------------------------------------------------------------- C26
\* the arrays and objects under v in depth-first key/index order, each at the
\* place where it is met first
RECURSIVE Visit(_, _), VisitKids(_, _, _)
Visit(seq, v) ==
    IF isObject(v) /\ ~isValueLike(heap, v) /\ v.v \notin SeqToSet(seq)
    THEN VisitKids(Append(seq, v.v), v.v, 1)
    ELSE seq

VisitKids(seq, a, i) ==
    IF i > NumSlots(heap[a]) THEN seq
    ELSE VisitKids(Visit(seq, heap[a].vals[i]), a, i + 1)

\* the j-th object of seq collides with the i-th: another object under the same key
Collides(seq, side, i, j) ==
    /\ i < j
    /\ LookupKey(heap, seq[i], side) = LookupKey(heap, seq[j], side)

\* the places of seq where a collision is met
Collisions(seq, side) == {j \in 1..Len(seq) : \E i \in 1..Len(seq) : Collides(seq, side, i, j)}

\* the same for collisions of tokens only
TokenCollisions(seq, side) ==
    {j \in Collisions(seq, side) : heap[seq[j]].id # NoId}

First(js) == CHOOSE j \in js : \A k \in js : j <= k

\* the conflict c is the first collision of seq
FirstCollision(c, seq, side) ==
    LET js == Collisions(seq, side)
    IN /\ js # {}
       /\ c.source = side
       /\ c.conflictingObjectRight = seq[First(js)]
       /\ Collides(seq, side, First({i \in 1..Len(seq) : seq[i] = c.conflictingObjectLeft} \cup {Len(seq) + 1}), First(js))

\* the last createDiff call had valid roots and the graphs are as it saw them
Correlated == diff.status \in {"ok", "typeerror", "conflict"} /\ diff.edits = hist.edits

FormerOrder == Visit(<<>>, Ref(diff.former))
PresentOrder == Visit(<<>>, Ref(diff.present))

\* C26: in createDiff the former traversal finishes and is checked for conflicts
\* before any present object is visited: when both the former graph and the present
\* graph contain a token conflict, the error thrown is the former one (source
\* FormerModel), and within one side the conflict reported is the first one met in
\* depth-first key/index order.
C26_FormerConflictFirst ==
    Correlated =>
        LET fo == FormerOrder
            po == PresentOrder
        IN IF Collisions(fo, "FormerModel") # {}
           THEN diff.status = "conflict" /\ FirstCollision(diff.conflict, fo, "FormerModel")
           ELSE IF Collisions(po, "PresentModel") # {}
           THEN diff.status = "conflict" /\ FirstCollision(diff.conflict, po, "PresentModel")
           ELSE diff.status # "conflict"

\* both graphs held two objects with one token, and the side reported held a
\* second collision after the one reported
C26_Witness ==
    /\ Correlated
    /\ TokenCollisions(FormerOrder, "FormerModel") # {}
    /\ TokenCollisions(PresentOrder, "PresentModel") # {}

SeveralCollisionsOnOneSide ==
    /\ Correlated
    /\ diff.status = "conflict"
    /\ Cardinality(Collisions(IF diff.conflict.source = "FormerModel" THEN FormerOrder ELSE PresentOrder,
                              diff.conflict.source)) > 1

SeveralTokenCollisionsOnOneSide ==
    /\ Correlated
    /\ diff.status = "conflict"
    /\ Cardinality(TokenCollisions(IF diff.conflict.source = "FormerModel" THEN FormerOrder ELSE PresentOrder,
                                   diff.conflict.source)) > 1

PresentConflictThrown ==
    /\ Correlated
    /\ diff.status = "conflict"
    /\ diff.conflict.source = "PresentModel"

\* ---------------------------------------------------------------- C27
\* this step is a takeSnapshot call of the host with plugins
PluggedSnapshotStep == hist'.snaps = hist.snaps + 1

\* the registered plugins that match the object at a, by time of registration
Matching(a) == SelectSeq(hist.order, LAMBDA n : PluginIsMatch(n, heap, Ref(a)))

\* the same, leaving out those that cannot clone: a reference-like one without clone
Cloning(a) ==
    SelectSeq(hist.order, LAMBDA n : /\ PluginIsMatch(n, heap, Ref(a))
                                     /\ n \in SeqToSet(referenceLikePlugins) => PluginHasClone(n))

\* a plugin that clones is the earliest registered of all that match, with or
\* without clone function
EarliestMatchingPluginClones ==
    [][PluggedSnapshotStep =>
         \A i \in 1..Len(hist'.clones.calls) :
            hist'.clones.calls[i].plugin = Matching(hist'.clones.calls[i].inst)[1]]_vars

\* C27: when a value is matched by more than one registered plugin, the plugin used
\* to clone it during takeSnapshot is the one registered earliest among all matching
\* plugins (plugins are tried in registration order and the first match wins); a
\* plugin without clone function is left out.
C27_EarliestCloningPluginClones ==
    [][PluggedSnapshotStep =>
         \A i \in 1..Len(hist'.clones.calls) :
            hist'.clones.calls[i].plugin = Cloning(hist'.clones.calls[i].inst)[1]]_vars

\* what holds: a matching value-like plugin goes before every reference-like one, and
\* within each list the earliest registered plugin that matches and can clone is used
FirstOf(plugins, a) ==
    SelectSeq(plugins, LAMBDA n : PluginIsMatch(n, heap, Ref(a)) /\ n \in SeqToSet(Cloning(a)))[1]

EarliestOfListClones ==
    [][PluggedSnapshotStep =>
         \A i \in 1..Len(hist'.clones.calls) :
            LET call == hist'.clones.calls[i]
            IN /\ Len(Matching(call.inst)) > 0
               /\ call.plugin = IF isValueLike(heap, Ref(call.inst))
                                THEN FirstOf(valueLikePlugins, call.inst)
                                ELSE FirstOf(referenceLikePlugins, call.inst)]_vars

\* an instance matched by two plugins was cloned by a plugin
SeveralMatchingCloned ==
    /\ Len(hist.clones.calls) > 0
    /\ \E i \in 1..Len(hist.clones.calls) : Len(Cloning(hist.clones.calls[i].inst)) > 1

\* ---------------------------------------------------------------- C28
\* the object at a is referred to from the graph under one of its own fields
RefersBack(a) ==
    \E i \in 1..Len(heap[a].vals) : heap[a].vals[i].t = "ref" /\ a \in Reach(heap, heap[a].vals[i].v)

\* the instances that takeSnapshot handed to the clone of a reference-like plugin
PluginCloned ==
    {hist'.clones.calls[i].inst : i \in {j \in 1..Len(hist'.clones.calls) :
                                          hist'.clones.calls[j].plugin \in SeqToSet(referenceLikePlugins)}}

\* the objects of the snapshot returned by the step that carry the token of a
ClonesOf(a) == {b \in Reach(heap', snap') : heap'[b].id = heap'[a].id}

\* the call returned a snapshot in which exactly one object stands for a
ClonedOnce(a) ==
    /\ ~hist'.clones.threw
    /\ heap'[a].id # NoId
    /\ Cardinality(ClonesOf(a)) = 1

\* C28: takeSnapshot of an object handled by a reference-like plugin with a custom
\* clone, whose nested fields (cloned through the context's clone callback) refer back
\* to that object, terminates, and the back-reference in the snapshot is the same clone
\* instance as the object's clone; that clone carries the original's identity token.
C28_PluginCloneKeepsBackReference ==
    [][PluggedSnapshotStep => \A a \in PluginCloned : RefersBack(a) => ClonedOnce(a)]_vars

\* the same for instances whose fields do not refer back to them
PluginCloneWithoutBackReference ==
    [][PluggedSnapshotStep => \A a \in PluginCloned : ~RefersBack(a) => ClonedOnce(a)]_vars

\* a takeSnapshot call that returned had made two clones of one instance
ClonedTwice ==
    /\ ~hist.clones.threw
    /\ \E i, j \in 1..Len(hist.clones.calls) : i # j /\ hist.clones.calls[i].inst = hist.clones.calls[j].inst

\* a takeSnapshot call ended in the overflow of the call stack
CloneOverflowed == hist.clones.threw

\* an instance without back-reference was cloned by a reference-like plugin
LeafPluginCloned ==
    /\ ~hist.clones.threw
    /\ \E i \in 1..Len(hist.clones.calls) :
          /\ hist.clones.calls[i].plugin \in SeqToSet(referenceLikePlugins)
          /\ heap[hist.clones.calls[i].inst].kind = "node"
          /\ ~RefersBack(hist.clones.calls[i].inst)

\* ---------------------------------------------------------------- edits after createDiff
\* what the host does to the object at o of the model or the snapshot once it holds
\* a diff: o[k] = v, o.push(v), o.splice(i, 1), o.setTime(n)
AfterOps == {"set", "push", "splice", "setTime"}

Edited(h, op, o, k, v) ==
    IF op = "set" THEN [h EXCEPT ![o] = PutProp(@, k, v)]
    ELSE IF op = "push" THEN [h EXCEPT ![o].vals = Append(@, v)]
    ELSE IF op = "splice" THEN [h EXCEPT ![o].vals = RemoveAt(@, 1)]
    ELSE [h EXCEPT ![o].vals = <<v>>]

EditAfterDiff ==
    \E op \in AfterOps, o \in HostRefs, k \in Keys, v \in MutVals :
        /\ diff.status = "ok"
        /\ hist.after < MaxAfter
        /\ CASE op = "set" -> heap[o].kind = "obj"
             [] op = "push" -> heap[o].kind = "arr" /\ Len(heap[o].vals) < MaxArr /\ k = "a"
             [] op = "splice" -> heap[o].kind = "arr" /\ Len(heap[o].vals) > 0 /\ k = "a" /\ v = Undef
             [] op = "setTime" -> heap[o].kind = "date" /\ k = "a" /\ v.t = "num" /\ <<v>> # heap[o].vals
        /\ Step(heap)
        /\ heap' = Edited(heap, op, o, k, v)
        /\ hist' = [hist EXCEPT !.steps = @ + 1, !.after = @ + 1, !.edits = @ + 1,
                                !.last = [op |-> op, obj |-> o, key |-> k, new |-> v]]
        /\ UNCHANGED <<model, snap, currentObjectId, valueLikePlugins, referenceLikePlugins, diff, unwrapped,
                       dirty, merged>>

NextAfter ==
    \/ TakeSnapshot
    \/ SetProp
    \/ SetPropNew
    \/ Push
    \/ CreateDiff
    \/ EditAfterDiff

SpecAfter == Init /\ [][NextAfter]_vars

\* ---------------------------------------------------------------- C29
\* this step is an edit of the model or the snapshot after createDiff returned a diff
AfterStep == hist'.after = hist.after + 1

\* the values a diff node holds: of its property diffs and in its buckets
NodeValues(node) ==
    {node.pdiffs[i].value : i \in 1..Len(node.pdiffs)}
        \cup {node.pdiffs[i].formerValue : i \in 1..Len(node.pdiffs)}
        \cup SeqToSet(node.inserted) \cup SeqToSet(node.deleted) \cup SeqToSet(node.other)

\* the objects a value of the diff shows to the host: the instances it refers to and
\* what is reachable from them
DiffShows ==
    UNION {Reach(heap, x.v) : x \in {y \in UNION {NodeValues(diff.nodes[i]) : i \in 1..Len(diff.nodes)} : y.t = "ref"}}

\* the edit leaves what the values of the diff show as it was
ValuesKept == \A a \in DiffShows : heap'[a] = heap[a]

\* the nodes and property diffs $isDirty() can be asked on
Askable ==
    {DiffV(i) : i \in 1..Len(diff.nodes)}
        \cup {PropDiffId(i, j) : i \in 1..Len(diff.nodes), j \in 1..Cardinality(Keys)}

\* $isDirty() answers after the edit as before it
DirtyKept ==
    \A x \in Askable :
        (x.t = "pd" => x.i <= Len(diff.nodes[x.v].pdiffs)) => isDirty(heap', diff, x) = isDirty(heap, diff, x)

\* what $unwrap(era) of the root builds on the heap h: the value returned and the
\* objects created
Unwrapping(h, era) ==
    LET r == unwrapValue([heap |-> h, map |-> <<>>, ret |-> Undef], diff, era, DiffV(diff.root))
    IN [ret |-> r.ret, made |-> SubSeq(r.heap, Len(h) + 1, Len(r.heap))]

\* $unwrap(era) builds after the edit what it builds before it
UnwrapKept == \A era \in {"Present", "Former"} : Unwrapping(heap', era) = Unwrapping(heap, era)

\* C29: a diff returned by createDiff is a detached structure: mutating the model or
\* the snapshot afterwards (changing primitives, re-pointing properties, adding or
\* removing array elements, mutating value-like instances in place) changes neither
\* the flags, buckets and values of any diff node nor the result of a later
\* $isDirty() or $unwrap() on it.
C29_DiffDetached ==
    [][AfterStep => (diff' = diff /\ ValuesKept /\ DirtyKept /\ UnwrapKept)]_vars

\* the same without the instances that the values of the diff show
DiffDetachedButForInstances ==
    [][AfterStep => (diff' = diff /\ DirtyKept /\ UnwrapKept)]_vars

\* every object of the former graph carried a token when the diff was made
FormerTokened == \A a \in Composites(heap, diff.former) : heap[a].id # NoId

\* the whole claim for diffs of a former graph whose objects all carry a token
TokenedDiffDetached ==
    [][(AfterStep /\ FormerTokened) => (diff' = diff /\ ValuesKept /\ DirtyKept /\ UnwrapKept)]_vars

\* a value-like instance of which the diff holds a copy was changed in place, an
\* array that the diff describes was changed
ValueLikeEditedAfterDiff ==
    /\ hist.after > 0
    /\ hist.last.op = "setTime"
    /\ DiffShows # {}
ArrayEditedAfterDiff ==
    /\ hist.after > 0
    /\ hist.last.op \in {"push", "splice"}

\* ---------------------------------------------------------------- C30
\* this step is an assignment through the wrapped target
MergeStep == hist'.merges = hist.merges + 1

\* the slots of the object at a that the step changed or added
Differs(a) ==
    {i \in 1..Len(heap'[a].vals) :
        \/ i > Len(heap[a].vals)
        \/ heap'[a].vals[i] # heap[a].vals[i]
        \/ heap'[a].keys # <<>> /\ heap'[a].keys[i] # heap[a].keys[i]}

\* the step removed no slot, created no object and changed neither kind nor token
ShapeKept ==
    /\ Len(heap') = Len(heap)
    /\ \A a \in 1..Len(heap) :
          /\ heap'[a].kind = heap[a].kind
          /\ heap'[a].id = heap[a].id
          /\ Len(heap'[a].vals) >= Len(heap[a].vals)

\* slot i of the object at a is the property the host assigned
IsAssigned(a, i) ==
    /\ a = merged'.target
    /\ IF heap[a].kind = "arr" THEN i = merged'.index ELSE heap'[a].keys[i] = merged'.key

\* slot i of the object at a belonged to the host model and referred to an object
\* whose token occurs in the subgraph of the composite assigned
ReferredToToken(a, i) ==
    /\ a \in Composites(heap, model)
    /\ i <= Len(heap[a].vals)
    /\ isReference(heap, heap[a].vals[i])
    /\ heap[heap[a].vals[i].v].id \in merged'.tokens

AssignedComposite == merged'.x.t = "ref" /\ ~isValueLike(heap, merged'.x)

\* C30: during a merge, assigning a primitive or a value-like through the wrapped
\* target changes only the assigned property; assigning a composite X changes,
\* besides the assigned property, only those properties and array slots of the host
\* model that referred to an object whose token occurs in X's subgraph: every other
\* property and array slot keeps its value, and the objects of X's subgraph themselves
\* are not modified.
C30_MergeFrame ==
    [][MergeStep =>
         /\ ShapeKept
         /\ \A a \in 1..Len(heap) : \A i \in Differs(a) :
               \/ IsAssigned(a, i)
               \/ AssignedComposite /\ ReferredToToken(a, i) /\ a \notin merged'.sub]_vars

\* the part about primitives and value-likes
MergeOfValueFrame ==
    [][(MergeStep /\ ~AssignedComposite) =>
         /\ ShapeKept
         /\ \A a \in 1..Len(heap) : \A i \in Differs(a) : IsAssigned(a, i)]_vars

\* the part about the slots outside the subgraph of X
MergeFrameOutside ==
    [][MergeStep =>
         /\ ShapeKept
         /\ \A a \in 1..Len(heap) : \A i \in Differs(a) :
               \/ IsAssigned(a, i)
               \/ AssignedComposite /\ ReferredToToken(a, i)]_vars

\* the whole claim for a composite X none of whose objects belonged to the host model
MergeOfForeignFrame ==
    [][(MergeStep /\ merged'.sub \cap Composites(heap, model) = {}) =>
         /\ ShapeKept
         /\ \A a \in 1..Len(heap) : \A i \in Differs(a) :
               \/ IsAssigned(a, i)
               \/ AssignedComposite /\ ReferredToToken(a, i) /\ a \notin merged'.sub]_vars

\* a composite was assigned and a slot other than the assigned one was retargeted;
\* a value-like was assigned
RetargetedBesidesAssigned ==
    /\ MergedComposite
    /\ ~isValueLike(heap, merged.x)
    /\ C6_Witness
ValueLikeMerged ==
    /\ merged.status = "done"
    /\ merged.target # 0
    /\ isValueLike(heap, merged.x)
====
